---- MODULE Spec2Model ----
(***************************************************************************)
(* A model of the indexed propositional directed acyclic graph (PDAG) of   *)
(* scram: src/src/pdag.h.  The header holds the data layout, the inline    *)
(* members (Gate::AddArg, NodeParentManager::EraseParent, the index        *)
(* generator, the NULL gate registrar); the out-of-line members            *)
(* (pdag.cc) are modelled from the design description, sections 4.2-4.5.   *)
(*                                                                         *)
(* An assertion of the source is modelled as in a debug build: the first   *)
(* failing assertion stops the program; its name is kept in "failed" and   *)
(* every later step of the interrupted operation is skipped.               *)
(***************************************************************************)
EXTENDS Integers, Sequences, FiniteSets, TLC

\* ------------------------------------------------------------------ bounds
\* Spec: a graph of several gates.
NumVars  == 2   \* most Variable nodes
MaxGates == 2   \* most gates made by the caller (a rewrite may add helpers)
MaxOps   == 5   \* most gate operations of one run
\* SpecGate: one gate made by the caller, over more variables.
GateVars == 3   \* most Variable nodes
GateOps  == 5   \* most gate operations of one run
\* Both.
MaxVote  == 3   \* largest vote number given to a VOTE gate
\* SpecPdag: construction, the root and the hand-over of the graph.
PdagVars  == 1  \* most Variable nodes
PdagGates == 2  \* most gates made by the caller
PdagOps   == 4  \* most gate operations of one run
\* SpecNull: gates that become NULL-type, before and after the hand-over.
NullGates == 2  \* most gates made by the caller
NullOps   == 6  \* most gate operations of one run
\* SpecFree: AddArg under its own assertions alone.
FreeGates == 2  \* most gates made by the caller
FreeOps   == 4  \* most gate operations of one run
\* SpecJoin: a gate over a NULL-type gate and the argument of that gate.
JoinVars  == 1  \* most Variable nodes
JoinGates == 2  \* most gates made by the caller
JoinOps   == 6  \* most gate operations of one run
\* SpecChain: a root over a chain of NULL-type gates, and the drain.
ChainVars == 1  \* most Variable nodes
MaxChain  == 2  \* most NULL-type gates of the chain
ChainOps  == 4  \* most gate operations of one run
\* SpecTranslate: the translation of one formula of the model.
FlatEvents   == 2  \* basic events of a formula without sub-formulas
MaxArgs      == 3  \* most arguments of a formula without sub-formulas
NestedEvents == 4  \* basic events of a formula over two sub-formulas
\* SpecSweep: visit times and sweeps of a graph of shared gates.
SweepVars  == 1  \* Variable nodes under the gates
SweepGates == 3  \* gates of the graph built
SweepOps   == 5  \* most operations of one run, the building included
MaxTime    == 2  \* largest time of a traversal clock
\* SpecCoalesce: a graph of shared gates under CoalesceGate and EraseArg.
CoalVars  == 2  \* most Variable nodes
CoalGates == 3  \* gates of the graph built
CoalOps   == 3  \* most operations of one run, the building included
MaxLits   == 2  \* most literals a gate of the graph built is given
\* SpecReport: the reporter and the label of an element.
MaxResults == 1  \* most results, and most event tree results, of an analysis
ReportOps  == 2  \* most calls of one run

\* ------------------------------------------------- constants of the source
kVariableStartIndex == 2

kAnd  == "kAnd"
kOr   == "kOr"
kVote == "kVote"
kXor  == "kXor"
kNot  == "kNot"
kNand == "kNand"
kNor  == "kNor"
kNull == "kNull"
Operator == {kAnd, kOr, kVote, kXor, kNot, kNand, kNor, kNull}

kNormalState == "kNormalState"
kNullState   == "kNullState"
kUnityState  == "kUnityState"
State == {kNormalState, kNullState, kUnityState}

\* ------------------------------------------------------------------- state
VARIABLES
  node_index,           \* Pdag::node_index_
  root,                 \* Pdag::root_ (0: unset)
  nvars,                \* number of Variable nodes
  gate,                 \* the live Gate objects, by index
  parents,              \* NodeParentManager::parents_ of every live node
  held,                 \* gates the caller holds a GatePtr to
  register_null_gates,  \* Pdag::register_null_gates_
  null_gates,           \* Pdag::null_gates_ (weak)
  const_gates,          \* Pdag::const_gates_ (weak)
  failed,               \* the assertion that stopped the program, or "none"
  last,                 \* the operation that produced this state
  nops,                 \* number of gate operations so far
  coherent,             \* Pdag::coherent_
  normal,               \* Pdag::normal_
  basic_events,         \* Pdag::basic_events_
  mef,                  \* the model formula and the translator's position
  visit_log,            \* the calls of Node::Visit since ClearVisits (history)
  swept,                \* the gates the last sweep worked on, in order
  out,                  \* what the std::ostream of the reporter has got
  file,                 \* the content of the output file of the reporter
  label_,               \* Element::label_
  thrown                \* the exception the last call threw, or "none"

\* What only the translation of a model changes.
mefvars == <<coherent, normal, basic_events, mef>>

\* What the operations on the arguments of gates and the translation leave
\* alone.
sidevars == <<visit_log, swept, out, file, label_, thrown>>

vars == <<node_index, root, nvars, gate, parents, held, register_null_gates,
          null_gates, const_gates, failed, last, nops, coherent, normal,
          basic_events, mef, visit_log, swept, out, file, label_, thrown>>

\* The graph as one value, so that an operation and the calls it makes
\* are functions from graph to graph.
World ==
  [node_index |-> node_index, nvars |-> nvars, gate |-> gate,
   parents |-> parents, register_null_gates |-> register_null_gates,
   null_gates |-> null_gates, const_gates |-> const_gates,
   failed |-> failed]

\* ----------------------------------------------------------------- helpers
Abs(i)  == IF i < 0 THEN -i ELSE i
Sign(i) == IF i < 0 THEN -1 ELSE 1

Ok(w) == w.failed = "none"
Fail(w, what) == IF Ok(w) THEN [w EXCEPT !.failed = what] ELSE w

RECURSIVE SortedSeq(_)
SortedSeq(S) ==
  IF S = {} THEN <<>>
  ELSE LET m == CHOOSE x \in S : \A y \in S : x <= y
       IN <<m>> \o SortedSeq(S \ {m})

Range(s) == {s[k] : k \in 1..Len(s)}

\* ext::linear_map: find by key, append, erase by key.
MapHas(m, key) == \E k \in 1..Len(m) : m[k] = key
MapErase(m, key) == LET Keep(e) == e # key IN SelectSeq(m, Keep)

IsConstantIndex(i) == i = 1
IsVariableIndex(w, i) ==
  i >= kVariableStartIndex /\ i < kVariableStartIndex + w.nvars
IsGateIndex(w, i) == i \in DOMAIN w.gate
Nodes(w) == {1} \cup {i \in 2..(1 + w.nvars) : TRUE} \cup DOMAIN w.gate

\* A freshly constructed Gate (Gate::Gate): Normal, no arguments.
NewGateRecord(t, k) ==
  [type |-> t, state |-> kNormalState, vote_number |-> k, args |-> {},
   gate_args |-> <<>>, variable_args |-> <<>>, constant_args |-> <<>>,
   mark |-> FALSE, visits |-> <<0, 0, 0>>]

NoGate == NewGateRecord("none", 0)

\* ------------------------------------------------------ NodeParentManager
AddParent(w, n, g) ==
  IF ~Ok(w) THEN w
  ELSE IF MapHas(w.parents[n], g) THEN Fail(w, "AddParent")
  ELSE [w EXCEPT !.parents[n] = Append(@, g)]

\* A slip: the entry is looked up but stays in the map.
EraseParentKeeps(w, n, index) ==
  IF ~Ok(w) THEN w
  ELSE IF ~MapHas(w.parents[n], index) THEN Fail(w, "EraseParent")
  ELSE w

EraseParent(w, n, index) ==
  IF ~Ok(w) THEN w
  ELSE IF ~MapHas(w.parents[n], index) THEN Fail(w, "EraseParent")
  ELSE [w EXCEPT !.parents[n] = MapErase(@, index)]

\* -------------------------------------------------------------- allocator
\* Slips of the generator: graph->node_index_++ hands out the index before
\* the increment; the start index is handed out again and again.
NodeIndexGeneratorStale(w) == w

NodeIndexGeneratorRestart(w) == [w EXCEPT !.node_index = kVariableStartIndex]

NodeIndexGenerator(w) == [w EXCEPT !.node_index = @ + 1]

\* Node::Node + Gate::Gate: a new gate takes the next index.
CreateGate(w, t, k) ==
  LET w1 == NodeIndexGenerator(w)
      h  == w1.node_index
  IN [w1 EXCEPT
        !.gate = [x \in DOMAIN w.gate \cup {h} |->
                    IF x = h THEN NewGateRecord(t, k) ELSE w.gate[x]],
        !.parents = [x \in DOMAIN w.parents \cup {h} |->
                    IF x = h THEN <<>> ELSE w.parents[x]]]

\* Node::Node for a Variable.
CreateVariable(w) ==
  LET w1 == NodeIndexGenerator(w)
      v  == w1.node_index
  IN [w1 EXCEPT
        !.nvars = @ + 1,
        !.parents = [x \in DOMAIN w.parents \cup {v} |->
                    IF x = v THEN <<>> ELSE w.parents[x]]]

\* ------------------------------------------------------------ worklists
\* Slips of the registrar: the two worklists taken for each other; the
\* mode of the graph never looked at.
NullGateRegistrarSwapped(w, g, constant) ==
  IF ~Ok(w) THEN w
  ELSE IF w.gate[g].type # kNull THEN Fail(w, "NullGateRegistrar")
  ELSE IF ~w.register_null_gates THEN w
  ELSE IF constant THEN [w EXCEPT !.null_gates = Append(@, g)]
  ELSE [w EXCEPT !.const_gates = Append(@, g)]

NullGateRegistrarAlways(w, g, constant) ==
  IF ~Ok(w) THEN w
  ELSE IF w.gate[g].type # kNull THEN Fail(w, "NullGateRegistrar")
  ELSE IF constant THEN [w EXCEPT !.const_gates = Append(@, g)]
  ELSE [w EXCEPT !.null_gates = Append(@, g)]

NullGateRegistrar(w, g, constant) ==
  IF ~Ok(w) THEN w
  ELSE IF w.gate[g].type # kNull THEN Fail(w, "NullGateRegistrar")
  ELSE IF ~w.register_null_gates THEN w
  ELSE IF constant THEN [w EXCEPT !.const_gates = Append(@, g)]
  ELSE [w EXCEPT !.null_gates = Append(@, g)]

\* Gate::type(Operator): the setter; a gate that becomes NULL-type is
\* handed to the registrar.
type(w, g, t) ==
  IF ~Ok(w) THEN w
  ELSE LET w1 == [w EXCEPT !.gate[g].type = t]
       IN IF t = kNull
          THEN NullGateRegistrar(w1, g, w1.gate[g].constant_args # <<>>)
          ELSE w1

\* --------------------------------------------------------------- removal
EraseTyped(G, index) ==
  [G EXCEPT !.args = @ \ {index},
            !.gate_args = MapErase(@, index),
            !.variable_args = MapErase(@, index),
            !.constant_args = MapErase(@, index)]

EraseArg(w, g, index) ==
  IF ~Ok(w) THEN w
  ELSE IF index = 0 \/ index \notin w.gate[g].args THEN Fail(w, "EraseArg")
  ELSE EraseParent([w EXCEPT !.gate[g] = EraseTyped(@, index)],
                   Abs(index), g)

RECURSIVE EraseParents(_, _, _)
EraseParents(w, s, g) ==
  IF s = <<>> THEN w
  ELSE EraseParents(EraseParent(w, Abs(Head(s)), g), Tail(s), g)

EraseAllArgs(w, g) ==
  IF ~Ok(w) THEN w
  ELSE LET G  == w.gate[g]
           w1 == [w EXCEPT !.gate[g].args = {},
                           !.gate[g].gate_args = <<>>,
                           !.gate[g].variable_args = <<>>,
                           !.gate[g].constant_args = <<>>]
       IN EraseParents(w1,
            G.gate_args \o G.variable_args \o G.constant_args, g)

MakeConstant(w, g, state) ==
  IF ~Ok(w) THEN w
  ELSE IF w.gate[g].state # kNormalState THEN Fail(w, "MakeConstant")
  ELSE EraseAllArgs(
         [w EXCEPT !.gate[g].state =
                      IF state THEN kUnityState ELSE kNullState], g)

\* ------------------------------------------------- insertion and rewrites
RECURSIVE AddArg(_, _, _)

RECURSIVE AddArgs(_, _, _)
AddArgs(w, g, s) ==
  IF s = <<>> THEN w ELSE AddArgs(AddArg(w, g, Head(s)), g, Tail(s))

\* Duplicate of a literal of a K/N gate over S: a helper H = VOTE(k-1) over
\* S without the literal; the gate becomes OR of the literal and H.
\* k = 1: the duplicate is absorbed; k = n: the gate becomes the
\* conjunction of its arguments.
ProcessVoteGateDuplicateArg(w, g, index) ==
  IF ~Ok(w) THEN w
  ELSE IF w.gate[g].type # kVote THEN Fail(w, "ProcessVoteGateDuplicateArg")
  ELSE
    LET k == w.gate[g].vote_number
        S == w.gate[g].args
    IN IF k = 1 THEN w
       ELSE IF k = Cardinality(S) THEN type(w, g, kAnd)
       ELSE
         LET w1 == CreateGate(w, kVote, k - 1)
             h  == w1.node_index
             w2 == AddArgs(w1, h, SortedSeq(S \ {index}))
             w3 == EraseAllArgs(w2, g)
             w4 == type(w3, g, kOr)
             w5 == AddArg(w4, g, index)
         IN AddArg(w5, g, h)

ProcessDuplicateArg(w, g, index) ==
  IF ~Ok(w) THEN w
  ELSE IF index \notin w.gate[g].args THEN Fail(w, "ProcessDuplicateArg")
  ELSE CASE w.gate[g].type \in {kAnd, kOr, kNand, kNor} -> w
         [] w.gate[g].type = kXor -> MakeConstant(w, g, FALSE)
         [] w.gate[g].type = kVote -> ProcessVoteGateDuplicateArg(w, g, index)
         [] OTHER -> Fail(w, "ProcessDuplicateArg")

ProcessComplementArg(w, g, index) ==
  IF ~Ok(w) THEN w
  ELSE IF -index \notin w.gate[g].args THEN Fail(w, "ProcessComplementArg")
  ELSE CASE w.gate[g].type \in {kAnd, kNor} -> MakeConstant(w, g, FALSE)
         [] w.gate[g].type \in {kOr, kNand, kXor} -> MakeConstant(w, g, TRUE)
         [] w.gate[g].type = kVote ->
              LET k  == w.gate[g].vote_number
                  w1 == EraseArg(w, g, -index)
              IN IF ~Ok(w1) THEN w1
                 ELSE IF Cardinality(w1.gate[g].args) >= k - 1
                 THEN [w1 EXCEPT !.gate[g].vote_number = k - 1]
                 ELSE type(w1, g, kOr)
         [] OTHER -> Fail(w, "ProcessComplementArg")

\* A slip of the insertion: every argument is stored as if it were a gate.
EmplaceBackAsGate(w, G, index) ==
  [G EXCEPT !.gate_args = Append(@, index)]

\* mutable_args<T>().data().emplace_back(index, arg): the typed map of the
\* child's node variant.
EmplaceBack(w, G, index) ==
  IF IsConstantIndex(Abs(index))
  THEN [G EXCEPT !.constant_args = Append(@, index)]
  ELSE IF IsVariableIndex(w, Abs(index))
  THEN [G EXCEPT !.variable_args = Append(@, index)]
  ELSE [G EXCEPT !.gate_args = Append(@, index)]

\* A slip of the insertion: the argument is stored with the other sign.
InsertNegated(w, g, index) ==
  AddParent(
    [w EXCEPT !.gate[g] =
       EmplaceBack(w, [@ EXCEPT !.args = @ \cup {-index}], -index)],
    Abs(index), g)

\* A slip of the insertion: the argument is stored and the child never
\* learns its parent.
InsertNoParent(w, g, index) ==
  [w EXCEPT !.gate[g] =
     EmplaceBack(w, [@ EXCEPT !.args = @ \cup {index}], index)]

\* The insertion of AddArg after its checks (args_.insert, emplace_back,
\* AddParent).
Insert(w, g, index) ==
  AddParent(
    [w EXCEPT !.gate[g] =
       EmplaceBack(w, [@ EXCEPT !.args = @ \cup {index}], index)],
    Abs(index), g)

\* A slip: the assertions on the number of arguments are missing.
AcceptsAnyArity(G) ==
  /\ G.state = kNormalState
  /\ G.vote_number >= 0

\* What Gate::AddArg asserts of the gate.
Accepts(G) ==
  /\ G.state = kNormalState
  /\ ~(G.type \in {kNot, kNull} /\ G.args # {})
  /\ ~(G.type = kXor /\ Cardinality(G.args) > 1)
  /\ G.vote_number >= 0

\* Slips of AddArg: a missing duplicate test, a missing complement test, the
\* complement taken for a duplicate, the duplicate taken for a complement, a
\* missing or a partial state assertion.
AddArgNoDuplicate(w, g, index) ==
  IF ~Ok(w) THEN w
  ELSE IF index = 0 \/ ~Accepts(w.gate[g]) THEN Fail(w, "AddArg")
  ELSE IF -index \in w.gate[g].args THEN ProcessComplementArg(w, g, index)
  ELSE Insert(w, g, index)

AddArgNoComplement(w, g, index) ==
  IF ~Ok(w) THEN w
  ELSE IF index = 0 \/ ~Accepts(w.gate[g]) THEN Fail(w, "AddArg")
  ELSE IF index \in w.gate[g].args THEN ProcessDuplicateArg(w, g, index)
  ELSE Insert(w, g, index)

AddArgComplementAsDuplicate(w, g, index) ==
  IF ~Ok(w) THEN w
  ELSE IF index = 0 \/ ~Accepts(w.gate[g]) THEN Fail(w, "AddArg")
  ELSE IF index \in w.gate[g].args \/ -index \in w.gate[g].args
  THEN ProcessDuplicateArg(w, g, IF index \in w.gate[g].args THEN index
                                  ELSE -index)
  ELSE Insert(w, g, index)

AddArgDuplicateAsComplement(w, g, index) ==
  IF ~Ok(w) THEN w
  ELSE IF index = 0 \/ ~Accepts(w.gate[g]) THEN Fail(w, "AddArg")
  ELSE IF index \in w.gate[g].args THEN ProcessComplementArg(w, g, -index)
  ELSE IF -index \in w.gate[g].args THEN ProcessComplementArg(w, g, index)
  ELSE Insert(w, g, index)

AddArgAnyState(w, g, index) ==
  IF ~Ok(w) THEN w
  ELSE IF index = 0
          \/ ~Accepts([w.gate[g] EXCEPT !.state = kNormalState])
  THEN Fail(w, "AddArg")
  ELSE IF index \in w.gate[g].args THEN ProcessDuplicateArg(w, g, index)
  ELSE IF -index \in w.gate[g].args THEN ProcessComplementArg(w, g, index)
  ELSE Insert(w, g, index)

AddArgUnityState(w, g, index) ==
  IF ~Ok(w) THEN w
  ELSE IF index = 0
          \/ ~Accepts([w.gate[g] EXCEPT !.state =
                IF @ = kUnityState THEN kNormalState ELSE @])
  THEN Fail(w, "AddArg")
  ELSE IF index \in w.gate[g].args THEN ProcessDuplicateArg(w, g, index)
  ELSE IF -index \in w.gate[g].args THEN ProcessComplementArg(w, g, index)
  ELSE Insert(w, g, index)

AddArg(w, g, index) ==
  IF ~Ok(w) THEN w
  ELSE IF index = 0 \/ ~Accepts(w.gate[g]) THEN Fail(w, "AddArg")
  ELSE IF index \in w.gate[g].args THEN ProcessDuplicateArg(w, g, index)
  ELSE IF -index \in w.gate[g].args THEN ProcessComplementArg(w, g, index)
  ELSE Insert(w, g, index)

\* ----------------------------------------------------- structural helpers
Negate(s) == [k \in 1..Len(s) |-> -s[k]]

\* A slip: every argument is made a complement, complements included.
InvertArgsAllNegative(w, g) ==
  IF ~Ok(w) THEN w
  ELSE IF w.gate[g].constant_args # <<>> THEN Fail(w, "InvertArgs")
  ELSE [w EXCEPT !.gate[g].args = {-Abs(i) : i \in @},
                 !.gate[g].gate_args = [k \in 1..Len(@) |-> -Abs(@[k])],
                 !.gate[g].variable_args = [k \in 1..Len(@) |-> -Abs(@[k])]]

InvertArgs(w, g) ==
  IF ~Ok(w) THEN w
  ELSE IF w.gate[g].constant_args # <<>> THEN Fail(w, "InvertArgs")
  ELSE [w EXCEPT !.gate[g].args = {-i : i \in @},
                 !.gate[g].gate_args = Negate(@),
                 !.gate[g].variable_args = Negate(@)]

InvertArg(w, g, existing_arg) ==
  IF ~Ok(w) THEN w
  ELSE IF w.gate[g].constant_args # <<>> THEN Fail(w, "InvertArg")
  ELSE AddArg(EraseArg(w, g, existing_arg), g, -existing_arg)

\* A slip: the state of the gate is not looked at after an argument has
\* been added.
CoalesceGateToTheEnd(w, g, arg_gate) ==
  IF ~Ok(w) THEN w
  ELSE IF w.gate[g].constant_args # <<>> THEN Fail(w, "CoalesceGate")
  ELSE IF arg_gate \notin w.gate[g].args THEN Fail(w, "CoalesceGate")
  ELSE
    LET A  == w.gate[arg_gate]
        w1 == AddArgs(w, g, A.gate_args \o A.variable_args \o A.constant_args)
    IN EraseArg(w1, g, arg_gate)

\* Gate::CoalesceGate: the arguments of the argument gate are added one by
\* one; AddArg may make the gate constant, and a constant gate takes no
\* further mutation, so the state is looked at after every AddArg; the
\* argument gate is erased at the end.
CoalesceGate(w, g, arg_gate) ==
  IF ~Ok(w) THEN w
  ELSE IF w.gate[g].constant_args # <<>> THEN Fail(w, "CoalesceGate")
  ELSE IF arg_gate \notin w.gate[g].args THEN Fail(w, "CoalesceGate")
  ELSE
    LET A  == w.gate[arg_gate]
        RECURSIVE Absorb(_, _)
        Absorb(v, s) ==
          IF s = <<>> THEN v
          ELSE LET v1 == AddArg(v, g, Head(s))
               IN IF ~Ok(v1) \/ v1.gate[g].state # kNormalState THEN v1
                  ELSE Absorb(v1, Tail(s))
        w1 == Absorb(w, A.gate_args \o A.variable_args \o A.constant_args)
    IN IF ~Ok(w1) \/ w1.gate[g].state # kNormalState THEN w1
       ELSE EraseArg(w1, g, arg_gate)

\* A slip: the sign of the NULL gate in its parent is dropped.
JoinNullGateUnsigned(w, g, index) ==
  IF ~Ok(w) THEN w
  ELSE IF ~MapHas(w.gate[g].gate_args, index) THEN Fail(w, "JoinNullGate")
  ELSE
    LET N == w.gate[Abs(index)] IN
    IF N.type # kNull THEN w
    ELSE IF Cardinality(N.args) # 1 THEN Fail(w, "JoinNullGate")
    ELSE LET x == CHOOSE i \in N.args : TRUE
         IN AddArg(EraseArg(w, g, index), g, x)

JoinNullGate(w, g, index) ==
  IF ~Ok(w) THEN w
  ELSE IF ~MapHas(w.gate[g].gate_args, index) THEN Fail(w, "JoinNullGate")
  ELSE
    LET N == w.gate[Abs(index)] IN
    IF N.type # kNull THEN w
    ELSE IF Cardinality(N.args) # 1 THEN Fail(w, "JoinNullGate")
    ELSE LET x == CHOOSE i \in N.args : TRUE
         IN AddArg(EraseArg(w, g, index), g, Sign(index) * x)

TransferArg(w, g, index, recipient) ==
  IF ~Ok(w) THEN w
  ELSE IF w.gate[g].constant_args # <<>> THEN Fail(w, "TransferArg")
  ELSE AddArg(EraseArg(w, g, index), recipient, index)

ShareArg(w, g, index, recipient) ==
  IF ~Ok(w) THEN w
  ELSE IF w.gate[g].constant_args # <<>> THEN Fail(w, "ShareArg")
  ELSE IF index \notin w.gate[g].args THEN Fail(w, "ShareArg")
  ELSE AddArg(w, recipient, index)

\* --------------------------------------------------- constant propagation
\* A slip: the sign of the argument is never looked up.
GetArgSignPositive(w, g, arg) == 1

\* A slip: the test of the sign is the wrong way round.
GetArgSignNegated(w, g, arg) == IF arg \in w.gate[g].args THEN -1 ELSE 1

GetArgSign(w, g, arg) == IF arg \in w.gate[g].args THEN 1 ELSE -1

\* Removes the argument; an emptied gate takes the given constant state.
RemoveConstantArg(w, g, index, empty_state) ==
  LET w1 == EraseArg(w, g, index)
  IN IF ~Ok(w1) THEN w1
     ELSE IF w1.gate[g].args = {} THEN MakeConstant(w1, g, empty_state)
     ELSE w1

\* XOR with a constant argument: the survivor decides NULL or NOT.
RemoveXorConstantArg(w, g, index) ==
  LET w1 == EraseArg(w, g, index)
  IN IF ~Ok(w1) THEN w1
     ELSE IF Cardinality(w1.gate[g].args) = 1
     THEN LET x == CHOOSE i \in w1.gate[g].args : TRUE
          IN type(w1, g, IF x > 0 THEN kNull ELSE kNot)
     ELSE w1

ProcessTrueArg(w, g, index) ==
  IF ~Ok(w) THEN w
  ELSE LET t == w.gate[g].type IN
    CASE t = kAnd  -> RemoveConstantArg(w, g, index, TRUE)
      [] t = kNand -> RemoveConstantArg(w, g, index, FALSE)
      [] t \in {kOr, kNull}  -> MakeConstant(w, g, TRUE)
      [] t \in {kNor, kNot}  -> MakeConstant(w, g, FALSE)
      [] t = kXor  -> RemoveXorConstantArg(w, g, index)
      [] t = kVote ->
           LET w1 == EraseArg(w, g, index)
               k  == w.gate[g].vote_number - 1
               w2 == IF Ok(w1) THEN [w1 EXCEPT !.gate[g].vote_number = k]
                     ELSE w1
           IN IF ~Ok(w2) THEN w2
              ELSE IF k = 0 THEN MakeConstant(w2, g, TRUE)
              ELSE IF k = Cardinality(w2.gate[g].args) THEN type(w2, g, kAnd)
              ELSE IF k = 1 THEN type(w2, g, kOr)
              ELSE w2

ProcessFalseArg(w, g, index) ==
  IF ~Ok(w) THEN w
  ELSE LET t == w.gate[g].type IN
    CASE t = kOr   -> RemoveConstantArg(w, g, index, FALSE)
      [] t = kNor  -> RemoveConstantArg(w, g, index, TRUE)
      [] t \in {kAnd, kNull} -> MakeConstant(w, g, FALSE)
      [] t \in {kNand, kNot} -> MakeConstant(w, g, TRUE)
      [] t = kXor  -> RemoveXorConstantArg(w, g, index)
      [] t = kVote ->
           LET w1 == EraseArg(w, g, index)
           IN IF ~Ok(w1) THEN w1
              ELSE LET n == Cardinality(w1.gate[g].args)
                       k == w1.gate[g].vote_number
                   IN IF n = k THEN type(w1, g, kAnd)
                      ELSE IF n < k THEN MakeConstant(w1, g, FALSE)
                      ELSE w1

ProcessConstantArg(w, g, arg, state) ==
  IF ~Ok(w) THEN w
  ELSE IF ~MapHas(w.parents[arg], g) THEN Fail(w, "GetArgSign")
  ELSE LET index == GetArgSign(w, g, arg) * arg
           value == IF index < 0 THEN ~state ELSE state
       IN IF value THEN ProcessTrueArg(w, g, index)
          ELSE ProcessFalseArg(w, g, index)

\* ---------------------------------------------------------------- lifetime
\* A gate lives while a GatePtr to it exists: one held by the caller or one
\* in the gate argument map of a live gate.
Owned(w, g) ==
  \E p \in DOMAIN w.gate : \E i \in Range(w.gate[p].gate_args) : Abs(i) = g

\* A slip: the worklists hold GatePtrs, so an entry keeps its gate alive.
UnownedUnlisted(w, h) ==
  {g \in DOMAIN w.gate :
     /\ g \notin h
     /\ ~Owned(w, g)
     /\ g \notin Range(w.null_gates) \cup Range(w.const_gates)}

Unowned(w, h) == {g \in DOMAIN w.gate : g \notin h /\ ~Owned(w, g)}

\* Gate::~Gate
DestroyGate(w, g) ==
  IF ~Ok(w) THEN w
  ELSE IF w.parents[g] # <<>> THEN Fail(w, "~Gate")
  ELSE LET w1 == EraseAllArgs(w, g)
       IN [w1 EXCEPT
             !.gate = [x \in DOMAIN w1.gate \ {g} |-> w1.gate[x]],
             !.parents = [x \in DOMAIN w1.parents \ {g} |-> w1.parents[x]]]

RECURSIVE Release(_, _)
Release(w, h) ==
  IF ~Ok(w) \/ Unowned(w, h) = {} THEN w
  ELSE Release(DestroyGate(w, CHOOSE g \in Unowned(w, h) : TRUE), h)

RECURSIVE Reaches(_, _, _)
Reaches(w, a, b) ==
  \/ a = b
  \/ /\ a \in DOMAIN w.gate
     /\ \E i \in w.gate[a].args : Reaches(w, Abs(i), b)

\* ------------------------------------------------- draining the worklists
RemoveAt(s, k) == SubSeq(s, 1, k - 1) \o SubSeq(s, k + 1, Len(s))

\* A NULL-type gate of one argument is joined into each of its parents.
RECURSIVE JoinInParents(_, _, _)
JoinInParents(w, n, ps) ==
  IF ps = <<>> \/ ~Ok(w) THEN w
  ELSE JoinInParents(
         JoinNullGate(w, Head(ps), GetArgSign(w, Head(ps), n) * n),
         n, Tail(ps))

PropagateNullGate(w, n) ==
  IF /\ w.gate[n].type = kNull
     /\ w.gate[n].state = kNormalState
     /\ Cardinality(w.gate[n].args) = 1
  THEN JoinInParents(w, n, w.parents[n])
  ELSE w

\* A gate over the Constant alone takes its constant state, and each of its
\* parents is told.
RECURSIVE ConstantInParents(_, _, _)
ConstantInParents(w, n, ps) ==
  IF ps = <<>> \/ ~Ok(w) THEN w
  ELSE ConstantInParents(
         ProcessConstantArg(w, Head(ps), n, w.gate[n].state = kUnityState),
         n, Tail(ps))

PropagateConstGate(w, n) ==
  IF /\ w.gate[n].type = kNull
     /\ w.gate[n].state = kNormalState
     /\ w.gate[n].args \in {{1}, {-1}}
  THEN LET w1 == ProcessConstantArg(w, n, 1, TRUE)
       IN ConstantInParents(w1, n, w1.parents[n])
  ELSE w

\* One entry of a worklist is taken off and its weak pointer upgraded: an
\* expired one gives nothing.
DrainNullGate(w, k) ==
  LET n  == w.null_gates[k]
      w0 == [w EXCEPT !.null_gates = RemoveAt(@, k)]
  IN IF n \in DOMAIN w.gate THEN PropagateNullGate(w0, n) ELSE w0

DrainConstGate(w, k) ==
  LET n  == w.const_gates[k]
      w0 == [w EXCEPT !.const_gates = RemoveAt(@, k)]
  IN IF n \in DOMAIN w.gate THEN PropagateConstGate(w0, n) ELSE w0

\* A chain of pass-through gates over a literal, bottom up: each an AND gate
\* of one argument that is set to NULL-type; ss holds the signs of the
\* gates in their parents.
RECURSIVE Chain(_, _, _)
Chain(w, lit, ss) ==
  IF ss = <<>> THEN [w |-> w, lit |-> lit]
  ELSE LET w1 == CreateGate(w, kAnd, 0)
           h  == w1.node_index
           w2 == type(AddArg(w1, h, lit), h, kNull)
       IN Chain(w2, Head(ss) * h, Tail(ss))

\* ------------------------------------------------------------ the program
Op(name, g, index, r, pre) ==
  [op |-> name, g |-> g, index |-> index, r |-> r, pre |-> pre]

\* A formula of the model: an operator, its vote number, and its arguments
\* in order, each a basic event, a house event or a sub-formula.
NoFormula == [type |-> "none", k |-> 0, args |-> <<>>]

BasicArg(e, neg) ==
  [kind |-> "basic", id |-> e, neg |-> neg, sub |-> NoFormula]
\* A house event, by its state: id 1 is TRUE, id 0 is FALSE.
HouseArg(state) ==
  [kind |-> "house", id |-> IF state THEN 1 ELSE 0, neg |-> FALSE,
   sub |-> NoFormula]
FormulaArg(f, neg) ==
  [kind |-> "formula", id |-> 0, neg |-> neg, sub |-> f]

\* Events as arguments: both signs of a basic event, both states of a
\* house event.
FlatLeaves ==
  {BasicArg(e, neg) : e \in 1..FlatEvents, neg \in BOOLEAN}
    \cup {HouseArg(b) : b \in BOOLEAN}

\* The formulas handed to the translator, each with the number of
\* arguments the model accepts for its operator: formulas over events alone,
\* with every operator and with repeated arguments; formulas over two
\* sub-formulas, which may share a basic event; formulas over an event and
\* a sub-formula.
ModelFormulas ==
  LET ValidArity(t, k, n) ==
        CASE t \in {kNot, kNull} -> k = 0 /\ n = 1
          [] t = kXor             -> k = 0 /\ n = 2
          [] t = kVote            -> 1 < k /\ k < n
          [] OTHER                -> k = 0 /\ n >= 1
      Over(t, a, b) == [type |-> t, k |-> 0, args |-> <<a, b>>]
      Binary == {kAnd, kOr, kXor, kNand, kNor}
      FlatFormulas ==
        {f \in [type : Operator, k : 0..MaxVote,
                args : UNION {[1..n -> FlatLeaves] : n \in 1..MaxArgs}] :
           ValidArity(f.type, f.k, Len(f.args))}
      SubFormulas ==
        {Over(t, BasicArg(a, FALSE), BasicArg(b, FALSE)) :
           t \in {kAnd, kOr, kXor},
           a \in 1..NestedEvents, b \in 2..NestedEvents}
      NestedFormulas ==
        {Over(t, FormulaArg(f1, n1), FormulaArg(f2, n2)) :
           t \in Binary,
           f1 \in {f \in SubFormulas : f.args[1].id < f.args[2].id},
           f2 \in {f \in SubFormulas : f.args[1].id < f.args[2].id},
           n1 \in BOOLEAN, n2 \in BOOLEAN}
      LeafFormulas ==
        {Over(t, l1, l2) :
           t \in {kAnd, kOr}, l1 \in FlatLeaves, l2 \in FlatLeaves}
      MixedFormulas ==
        {Over(t, l, FormulaArg(f, neg)) :
           t \in Binary, l \in FlatLeaves, f \in LeafFormulas,
           neg \in BOOLEAN}
  IN FlatFormulas \cup NestedFormulas \cup MixedFormulas

\* The basic events of a formula in the order the walk meets them.
RECURSIVE EventsOf(_)
EventsOf(f) ==
  LET a == Head(f.args)
      first == CASE a.kind = "basic"   -> <<a.id>>
                 [] a.kind = "house"   -> <<>>
                 [] a.kind = "formula" -> EventsOf(a.sub)
  IN IF f.args = <<>> THEN <<>>
     ELSE first \o EventsOf([f EXCEPT !.args = Tail(@)])

\* Pdag::Pdag(): the allocator starts at 0 and the Constant takes index 1.
Init ==
  /\ coherent = TRUE
  /\ normal = TRUE
  /\ basic_events = <<>>
  /\ mef = [formula |-> NoFormula, walk |-> <<>>, stack |-> <<>>,
            done |-> FALSE]
  /\ node_index = 1
  /\ root = 0
  /\ nvars = 0
  /\ gate = <<>>
  /\ parents = [x \in {1} |-> <<>>]
  /\ held = {}
  /\ register_null_gates = FALSE
  /\ null_gates = <<>>
  /\ const_gates = <<>>
  /\ failed = "none"
  /\ last = Op("Pdag", 0, 0, 0, NoGate)
  /\ visit_log = <<>>
  /\ swept = <<>>
  /\ out = <<>>
  /\ file = <<>>
  /\ label_ = ""
  /\ thrown = "none"
  /\ nops = 0

\* The GatePtr the graph holds: the root, once set.
RootPtr == IF root = 0 THEN {} ELSE {root}

\* The end of an operation: the GatePtrs it dropped destroy their gates.
Commit(w, h, o) ==
  LET c == Release(w, h \cup RootPtr) IN
  /\ node_index' = c.node_index
  /\ root' = root
  /\ nvars' = c.nvars
  /\ gate' = c.gate
  /\ parents' = c.parents
  /\ register_null_gates' = c.register_null_gates
  /\ null_gates' = c.null_gates
  /\ const_gates' = c.const_gates
  /\ failed' = c.failed
  /\ held' = h
  /\ last' = o
  /\ nops' = nops + 1
  /\ UNCHANGED <<mefvars, sidevars>>

Running(ops) == failed = "none" /\ nops < ops

Literals(w) == {i \in (-w.node_index)..w.node_index : Abs(i) \in Nodes(w)}

\* A slip of the translation: one pass, a Variable made when a gate first
\* needs it.
NewVariableLate(most) ==
  /\ failed = "none"
  /\ nvars < most
  /\ LET w == CreateVariable(World) IN
     /\ node_index' = w.node_index
     /\ nvars' = w.nvars
     /\ parents' = w.parents
  /\ last' = Op("Variable", 0, CreateVariable(World).node_index, 0, NoGate)
  /\ UNCHANGED <<root, gate, held, register_null_gates, null_gates, const_gates,
                 failed, nops>>
  /\ UNCHANGED <<mefvars, sidevars>>

\* The variable-gathering pass: Variables take the indices after the
\* Constant before any gate exists.
NewVariable(most) ==
  /\ failed = "none"
  /\ nvars < most
  /\ node_index = 1 + nvars
  /\ LET w == CreateVariable(World) IN
     /\ node_index' = w.node_index
     /\ nvars' = w.nvars
     /\ parents' = w.parents
  /\ last' = Op("Variable", 0, CreateVariable(World).node_index, 0, NoGate)
  /\ UNCHANGED <<root, gate, held, register_null_gates, null_gates, const_gates,
                 failed, nops>>
  /\ UNCHANGED <<mefvars, sidevars>>

\* std::make_shared<Gate>(type, &graph); gate->vote_number(k)
NewGate(most, ops) ==
  /\ Running(ops)
  /\ node_index - 1 - nvars < most
  /\ \E t \in Operator :
     \E k \in IF t = kVote THEN 1..MaxVote ELSE {0} :
       LET w == CreateGate(World, t, k)
       IN Commit(w, held \cup {w.node_index},
                 Op("Gate", w.node_index, 0, 0, NoGate))

\* The caller lets go of a GatePtr.
DropGate(ops) ==
  /\ Running(ops)
  /\ \E g \in held :
       Commit(World, held \ {g}, Op("Drop", g, 0, 0, gate[g]))

\* The caller adds a node of the graph that the gate is no argument of,
\* directly or through other gates.
CallAddArg(ops) ==
  /\ Running(ops)
  /\ \E g \in DOMAIN gate :
     \E index \in Literals(World) \ {0} :
       /\ ~Reaches(World, Abs(index), g)
       /\ Commit(AddArg(World, g, index), held,
                 Op("AddArg", g, index, 0, gate[g]))

CallEraseArg(ops) ==
  /\ Running(ops)
  /\ \E g \in DOMAIN gate :
     \E index \in gate[g].args :
       Commit(EraseArg(World, g, index), held,
              Op("EraseArg", g, index, 0, gate[g]))

CallInvertArgs(ops) ==
  /\ Running(ops)
  /\ \E g \in DOMAIN gate :
       /\ gate[g].constant_args = <<>>
       /\ Commit(InvertArgs(World, g), held,
                 Op("InvertArgs", g, 0, 0, gate[g]))

CallInvertArg(ops) ==
  /\ Running(ops)
  /\ \E g \in DOMAIN gate :
     \E index \in gate[g].args :
       /\ gate[g].constant_args = <<>>
       /\ Commit(InvertArg(World, g, index), held,
                 Op("InvertArg", g, index, 0, gate[g]))

CallCoalesceGate(ops) ==
  /\ Running(ops)
  /\ \E g \in DOMAIN gate :
     \E a \in Range(gate[g].gate_args) :
       /\ a > 0
       /\ gate[g].type \in {kAnd, kOr, kNand, kNor, kXor}
       /\ gate[a].type = gate[g].type
       /\ gate[g].constant_args = <<>>
       /\ gate[a].constant_args = <<>>
       /\ Commit(CoalesceGate(World, g, a), held,
                 Op("CoalesceGate", g, a, 0, gate[g]))

CallJoinNullGate(ops) ==
  /\ Running(ops)
  /\ \E g \in DOMAIN gate :
     \E index \in Range(gate[g].gate_args) :
       /\ gate[Abs(index)].type = kNull
       /\ Cardinality(gate[Abs(index)].args) = 1
       /\ Commit(JoinNullGate(World, g, index), held,
                 Op("JoinNullGate", g, index, 0, gate[g]))

CallTransferArg(ops) ==
  /\ Running(ops)
  /\ \E g \in DOMAIN gate :
     \E index \in gate[g].args :
     \E r \in DOMAIN gate \ {g} :
       /\ gate[g].constant_args = <<>>
       /\ ~Reaches(World, Abs(index), r)
       /\ Commit(TransferArg(World, g, index, r), held,
                 Op("TransferArg", g, index, r, gate[g]))

CallShareArg(ops) ==
  /\ Running(ops)
  /\ \E g \in DOMAIN gate :
     \E index \in gate[g].args :
     \E r \in DOMAIN gate \ {g} :
       /\ gate[g].constant_args = <<>>
       /\ ~Reaches(World, Abs(index), r)
       /\ Commit(ShareArg(World, g, index, r), held,
                 Op("ShareArg", g, index, r, gate[g]))

\* The constant argument is the Constant (TRUE) or a gate that has become
\* constant (Unity is TRUE).
CallProcessConstantArg(ops) ==
  /\ Running(ops)
  /\ \E g \in DOMAIN gate :
     \E index \in gate[g].args :
       LET arg == Abs(index) IN
       /\ \/ IsConstantIndex(arg)
          \/ arg \in DOMAIN gate /\ gate[arg].state # kNormalState
       /\ Commit(ProcessConstantArg(World, g, arg,
                   IsConstantIndex(arg) \/ gate[arg].state = kUnityState),
                 held, Op("ProcessConstantArg", g, index, 0, gate[g]))

CallMakeConstant(ops) ==
  /\ Running(ops)
  /\ \E g \in DOMAIN gate :
     \E state \in BOOLEAN :
       Commit(MakeConstant(World, g, state), held,
              Op(IF state THEN "MakeConstantTrue" ELSE "MakeConstantFalse",
                 g, 0, 0, gate[g]))

\* AddArg with any live node, the gate itself and its ancestors included:
\* the assertions of AddArg are all that stands in the way.
CallAddArgAny(ops) ==
  /\ Running(ops)
  /\ \E g \in DOMAIN gate :
     \E index \in Literals(World) \ {0} :
       Commit(AddArg(World, g, index), held,
              Op("AddArg", g, index, 0, gate[g]))

\* Pdag::root(gate): the graph takes a GatePtr to the new root and lets go
\* of the old one.
SetRoot(ops) ==
  /\ Running(ops)
  /\ \E g \in DOMAIN gate \ {root} :
       LET c == Release(World, held \cup {g}) IN
       /\ root' = g
       /\ node_index' = c.node_index
       /\ nvars' = c.nvars
       /\ gate' = c.gate
       /\ parents' = c.parents
       /\ register_null_gates' = c.register_null_gates
       /\ null_gates' = c.null_gates
       /\ const_gates' = c.const_gates
       /\ failed' = c.failed
       /\ last' = Op("root", g, 0, 0, gate[g])
       /\ UNCHANGED held
       /\ nops' = nops + 1
       /\ UNCHANGED <<mefvars, sidevars>>

\* The end of construction: the graph goes to the downstream algorithms
\* with the registration of NULL gates switched on.
HandOff ==
  /\ failed = "none"
  /\ ~register_null_gates
  /\ register_null_gates' = TRUE
  /\ last' = Op("HandOff", 0, 0, 0, NoGate)
  /\ UNCHANGED <<node_index, root, nvars, gate, parents, held, null_gates,
                 const_gates, failed, nops>>
  /\ UNCHANGED <<mefvars, sidevars>>

\* The graph is given a root over a chain of NULL-type gates that ends in
\* a variable or in the Constant, beside other arguments of the root; only
\* the graph holds a GatePtr, to the root.
BuildChain ==
  /\ failed = "none"
  /\ register_null_gates
  /\ DOMAIN gate = {}
  /\ root = 0
  /\ \E t \in Operator :
     \E k \in IF t = kVote THEN 1..MaxVote ELSE {0} :
     \E side \in SUBSET (Literals(World) \ {0}) :
     \E bottom \in Literals(World) \ {0} :
     \E len \in 1..MaxChain :
     \E ss \in [1..len -> {1, -1}] :
       LET c  == Chain(World, bottom, ss)
           w1 == CreateGate(c.w, t, k)
           r  == w1.node_index
           w2 == Release(AddArg(AddArgs(w1, r, SortedSeq(side)), r, c.lit),
                         held \cup {r})
       IN /\ w2.failed = "none"
          /\ root' = r
          /\ node_index' = w2.node_index
          /\ nvars' = w2.nvars
          /\ gate' = w2.gate
          /\ parents' = w2.parents
          /\ register_null_gates' = w2.register_null_gates
          /\ null_gates' = w2.null_gates
          /\ const_gates' = w2.const_gates
          /\ failed' = w2.failed
          /\ last' = Op("BuildChain", r, bottom, len, NoGate)
          /\ UNCHANGED held
          /\ nops' = nops + 1
          /\ UNCHANGED <<mefvars, sidevars>>

\* The drainer takes the entries of a worklist in any order.
DrainNull(ops) ==
  /\ Running(ops)
  /\ \E k \in 1..Len(null_gates) :
       Commit(DrainNullGate(World, k), held,
              Op("DrainNull", null_gates[k], k, 0,
                 IF null_gates[k] \in DOMAIN gate THEN gate[null_gates[k]]
                 ELSE NoGate))

DrainConst(ops) ==
  /\ Running(ops)
  /\ \E k \in 1..Len(const_gates) :
       Commit(DrainConstGate(World, k), held,
              Op("DrainConst", const_gates[k], k, 0,
                 IF const_gates[k] \in DOMAIN gate THEN gate[const_gates[k]]
                 ELSE NoGate))

\* ------------------------------------------------------------ translation
\* Slip of the gathering: a Variable for every occurrence of an event.
GatherBasicEventAgain(w, be, e) ==
  [w |-> CreateVariable(w), be |-> Append(be, e)]

\* Pdag::GatherVariables for a basic event: the first time the walk meets
\* the event it gets a Variable and the next entry of basic_events_.
GatherBasicEvent(w, be, e) ==
  IF e \in Range(be) THEN [w |-> w, be |-> be]
  ELSE [w |-> CreateVariable(w), be |-> Append(be, e)]

\* The Variable of a gathered basic event.
VariableOf(be, e) ==
  kVariableStartIndex - 1 + (CHOOSE i \in 1..Len(be) : be[i] = e)

\* Slip of the flag: XOR alone taken for non-coherent.
CoherentOperatorXorOnly(t) == t # kXor

\* The operators that leave a graph coherent.
CoherentOperator(t) == t \notin {kNot, kNand, kNor, kXor}

\* No operator other than AND and OR is left in the graph.
NormalOperators(w) ==
  \A g \in DOMAIN w.gate : w.gate[g].type \in {kAnd, kOr}

\* The collapse of a gate that has just been given the Constant: the
\* Constant is processed with the state TRUE, the sign of the argument
\* carrying the state of the house event.
ProcessHouseEvent(w, g) ==
  IF ~Ok(w) THEN w
  ELSE IF w.gate[g].state = kNormalState /\ w.gate[g].constant_args # <<>>
  THEN ProcessConstantArg(w, g, 1, TRUE)
  ELSE w

\* The gate under construction and its formula; i is the next argument.
Top == mef.stack[Len(mef.stack)]
\* Arguments are added while the gate is in the Normal state.
TopOpen ==
  /\ mef.stack # <<>>
  /\ Top.i <= Len(Top.f.args)
  /\ gate[Top.g].state = kNormalState
Advance == [mef EXCEPT !.stack[Len(mef.stack)].i = @ + 1]

\* A step of the translation ends: the translator holds the gates under
\* construction and the graph its root.
Store(w, m, r) ==
  LET frames == {m.stack[j].g : j \in 1..Len(m.stack)}
      c == Release(w, frames \cup (IF r = 0 THEN {} ELSE {r}))
  IN
  /\ node_index' = c.node_index
  /\ nvars' = c.nvars
  /\ gate' = c.gate
  /\ parents' = c.parents
  /\ null_gates' = c.null_gates
  /\ const_gates' = c.const_gates
  /\ failed' = c.failed
  /\ held' = frames
  /\ mef' = m
  /\ root' = r
  /\ nops' = nops
  /\ UNCHANGED sidevars

\* The first pass, one basic event of the walk at a time.
GatherVariables ==
  /\ failed = "none"
  /\ mef.walk # <<>>
  /\ LET e == Head(mef.walk)
         n == GatherBasicEvent(World, basic_events, e)
     IN /\ Store(n.w, [mef EXCEPT !.walk = Tail(@)], root)
        /\ basic_events' = n.be
        /\ last' = Op("GatherVariables", 0, e, 0, NoGate)
  /\ UNCHANGED <<coherent, normal, register_null_gates>>

\* Pdag::ConstructGate: the gate of the root formula, or of the sub-formula
\* that is the next argument, takes the next index.
ConstructGate ==
  /\ failed = "none"
  /\ mef.formula # NoFormula
  /\ mef.walk = <<>>
  /\ ~mef.done
  /\ \/ mef.stack = <<>>
     \/ TopOpen /\ Top.f.args[Top.i].kind = "formula"
  /\ LET f == IF mef.stack = <<>> THEN mef.formula ELSE Top.f.args[Top.i].sub
         w == CreateGate(World, f.type, f.k)
         g == w.node_index
     IN /\ Store(w, [mef EXCEPT !.stack = Append(@, [f |-> f, g |-> g,
                                                      i |-> 1])], root)
        /\ coherent' = (coherent /\ CoherentOperator(f.type))
        /\ last' = Op("ConstructGate", g, 0, 0, NoGate)
  /\ UNCHANGED <<normal, basic_events, register_null_gates>>

\* Pdag::AddArg for a basic event: the Variable, with the sign of the
\* argument.
AddArgBasicEvent ==
  /\ failed = "none"
  /\ TopOpen
  /\ Top.f.args[Top.i].kind = "basic"
  /\ LET v == VariableOf(basic_events, Top.f.args[Top.i].id)
         index == IF Top.f.args[Top.i].neg THEN -v ELSE v
     IN /\ Store(AddArg(World, Top.g, index), Advance, root)
        /\ coherent' = (coherent /\ ~Top.f.args[Top.i].neg)
        /\ last' = Op("AddArgBasicEvent", Top.g, index, 0, gate[Top.g])
  /\ UNCHANGED <<normal, basic_events, register_null_gates>>

\* Pdag::AddArg for a house event: the Constant, positive for TRUE and
\* negative for FALSE, and then the collapse of the gate.
AddArgHouseEvent ==
  /\ failed = "none"
  /\ TopOpen
  /\ Top.f.args[Top.i].kind = "house"
  /\ LET index == IF Top.f.args[Top.i].id = 1 THEN 1 ELSE -1
         w == ProcessHouseEvent(AddArg(World, Top.g, index), Top.g)
     IN /\ Store(w, Advance, root)
        /\ last' = Op("AddArgHouseEvent", Top.g, index, 0, gate[Top.g])
  /\ UNCHANGED <<coherent, normal, basic_events, register_null_gates>>

\* The end of Pdag::ConstructGate: the gate becomes the argument of the
\* gate above it or, at the top, the root of the graph, which is then
\* handed over.
ReturnGate ==
  /\ failed = "none"
  /\ mef.stack # <<>>
  /\ ~TopOpen
  /\ LET g == Top.g
         n == Len(mef.stack)
     IN IF n > 1
        THEN LET p   == mef.stack[n - 1]
                 a   == p.f.args[p.i]
                 arg == IF a.neg THEN -g ELSE g
             IN /\ Store(AddArg(World, p.g, arg),
                         [mef EXCEPT !.stack =
                            Append(SubSeq(@, 1, n - 2),
                                   [p EXCEPT !.i = @ + 1])], root)
                /\ coherent' = (coherent /\ ~a.neg)
                /\ last' = Op("AddArgGate", p.g, arg, 0, gate[p.g])
                /\ UNCHANGED <<normal, register_null_gates>>
        ELSE /\ Store(World, [mef EXCEPT !.stack = <<>>, !.done = TRUE], g)
             /\ normal' = NormalOperators(Release(World, {g}))
             /\ register_null_gates' = TRUE
             /\ last' = Op("root", g, 0, 0, gate[g])
             /\ UNCHANGED coherent
  /\ UNCHANGED basic_events

\* The model hands one formula to the translator.
InitTranslate ==
  /\ coherent = TRUE
  /\ normal = TRUE
  /\ basic_events = <<>>
  /\ \E f \in ModelFormulas :
       mef = [formula |-> f, walk |-> EventsOf(f), stack |-> <<>>,
              done |-> FALSE]
  /\ node_index = 1
  /\ root = 0
  /\ nvars = 0
  /\ gate = <<>>
  /\ parents = [x \in {1} |-> <<>>]
  /\ held = {}
  /\ register_null_gates = FALSE
  /\ null_gates = <<>>
  /\ const_gates = <<>>
  /\ failed = "none"
  /\ last = Op("Pdag", 0, 0, 0, NoGate)
  /\ visit_log = <<>>
  /\ swept = <<>>
  /\ out = <<>>
  /\ file = <<>>
  /\ label_ = ""
  /\ thrown = "none"
  /\ nops = 0

\* ------------------------------------------- visit times and gate marks
\* A slip: the flag is not stored.
markLost(w, g, flag) == w

\* Gate::mark(bool)
mark(w, g, flag) == [w EXCEPT !.gate[g].mark = flag]

\* A slip: a later visit is written over the exit time.
VisitOverExit(w, g, time) ==
  IF ~Ok(w) THEN [w |-> w, r |-> FALSE]
  ELSE IF ~(time > 0) THEN [w |-> Fail(w, "Visit"), r |-> FALSE]
  ELSE LET visits_ == w.gate[g].visits IN
    IF visits_[1] = 0
    THEN [w |-> [w EXCEPT !.gate[g].visits[1] = time], r |-> FALSE]
    ELSE [w |-> [w EXCEPT !.gate[g].visits[2] = time],
          r |-> visits_[2] # 0]

\* Node::Visit: the first time is the enter time, the second the exit time,
\* every later one the last visit; the value returned goes with the graph.
Visit(w, g, time) ==
  IF ~Ok(w) THEN [w |-> w, r |-> FALSE]
  ELSE IF ~(time > 0) THEN [w |-> Fail(w, "Visit"), r |-> FALSE]
  ELSE LET visits_ == w.gate[g].visits IN
    IF visits_[1] = 0
    THEN [w |-> [w EXCEPT !.gate[g].visits[1] = time], r |-> FALSE]
    ELSE IF visits_[2] = 0
    THEN [w |-> [w EXCEPT !.gate[g].visits[2] = time], r |-> FALSE]
    ELSE [w |-> [w EXCEPT !.gate[g].visits[3] = time], r |-> TRUE]

\* Node::LastVisit
LastVisit(G) == IF G.visits[3] # 0 THEN G.visits[3] ELSE G.visits[2]

\* Node::ClearVisits
ClearVisits(w, g) == [w EXCEPT !.gate[g].visits = <<0, 0, 0>>]

\* The first pass of a sweep: a gate that is not marked is marked and
\* worked on (its visit times cleared, when clear is set), and its gate
\* arguments follow; a marked gate has been seen. s is the graph and the
\* gates worked on so far, todo the gates still to look at.
RECURSIVE Traverse(_, _, _)
Traverse(s, todo, clear) ==
  IF todo = <<>> THEN s
  ELSE LET g == Head(todo) IN
    IF s.w.gate[g].mark THEN Traverse(s, Tail(todo), clear)
    ELSE LET w1 == mark(s.w, g, TRUE)
             w2 == IF clear THEN ClearVisits(w1, g) ELSE w1
             G  == w2.gate[g]
         IN Traverse([w |-> w2, swept |-> Append(s.swept, g)],
                     [k \in 1..Len(G.gate_args) |-> Abs(G.gate_args[k])]
                       \o Tail(todo),
                     clear)

\* Pdag::ClearGateMarks(gate): top-down, a marked gate is cleared and its
\* gate arguments follow; below a clear gate nothing is looked at.
RECURSIVE ClearGateMarks(_, _)
ClearGateMarks(w, todo) ==
  IF todo = <<>> THEN w
  ELSE LET g == Head(todo)
           G == w.gate[g]
       IN IF ~G.mark THEN ClearGateMarks(w, Tail(todo))
          ELSE ClearGateMarks(
                 mark(w, g, FALSE),
                 [k \in 1..Len(G.gate_args) |-> Abs(G.gate_args[k])]
                   \o Tail(todo))

\* Pdag::ClearNodeVisits(gate), and Pdag::ClearNodeVisits() for the root
\* r of the graph as the start: the assertion on the mark of the root, the
\* pass that clears the visit times, the pass that clears the marks.
ClearNodeVisits(w, r, start) ==
  IF ~Ok(w) THEN [w |-> w, swept |-> <<>>]
  ELSE IF w.gate[r].mark
  THEN [w |-> Fail(w, "ClearNodeVisits"), swept |-> <<>>]
  ELSE LET s == Traverse([w |-> w, swept |-> <<>>], <<start>>, TRUE)
       IN [w |-> ClearGateMarks(s.w, <<start>>), swept |-> s.swept]

\* Pdag::Log: the gates of the graph are gone through once each, from the
\* root r, and the marks are cleared.
Log(w, r) ==
  IF ~Ok(w) THEN [w |-> w, swept |-> <<>>]
  ELSE IF w.gate[r].mark THEN [w |-> Fail(w, "Log"), swept |-> <<>>]
  ELSE LET s == Traverse([w |-> w, swept |-> <<>>], <<r>>, FALSE)
       IN [w |-> ClearGateMarks(s.w, <<r>>), swept |-> s.swept]

\* The graph is given n gates of one operator: every gate is over one of
\* the given sets of literals and over some of the gates made after it; the
\* first gate is the root, and only the graph holds a GatePtr, to the root.
BuildDag(types, n, argsets) ==
  /\ failed = "none"
  /\ DOMAIN gate = {}
  /\ root = 0
  /\ \A S \in argsets : \A i \in S : Abs(i) \in Nodes(World)
  /\ \E t \in types :
     \E edges \in SUBSET {e \in (1..n) \X (1..n) : e[1] < e[2]} :
     \E lits \in [1..n -> argsets] :
       LET base == node_index
           RECURSIVE Gates(_, _)
           Gates(w, k) == IF k = 0 THEN w ELSE Gates(CreateGate(w, t, 0), k - 1)
           RECURSIVE Wire(_, _)
           Wire(w, p) ==
             IF p = 0 THEN w
             ELSE Wire(AddArgs(w, base + p,
                         SortedSeq(lits[p]) \o
                         SortedSeq({base + c : c \in {c \in 1..n :
                                                        <<p, c>> \in edges}})),
                       p - 1)
           r  == base + 1
           w2 == Release(Wire(Gates(World, n), n), held \cup {r})
       IN /\ w2.failed = "none"
          /\ root' = r
          /\ node_index' = w2.node_index
          /\ nvars' = w2.nvars
          /\ gate' = w2.gate
          /\ parents' = w2.parents
          /\ register_null_gates' = w2.register_null_gates
          /\ null_gates' = w2.null_gates
          /\ const_gates' = w2.const_gates
          /\ failed' = w2.failed
          /\ last' = Op("BuildDag", r, 0, n, NoGate)
          /\ nops' = nops + 1
          /\ UNCHANGED held
          /\ UNCHANGED <<mefvars, sidevars>>

\* EraseArg with any literal of the graph, held by the gate or not.
CallEraseArgAny(ops) ==
  /\ Running(ops)
  /\ \E g \in DOMAIN gate :
     \E index \in Literals(World) \ {0} :
       Commit(EraseArg(World, g, index), held,
              Op("EraseArg", g, index, 0, gate[g]))

\* A traversal visits a gate at a time of its clock.
CallVisit(ops, times) ==
  /\ Running(ops)
  /\ \E g \in DOMAIN gate :
     \E time \in times :
       LET v == Visit(World, g, time) IN
       /\ gate' = v.w.gate
       /\ failed' = v.w.failed
       /\ visit_log' = IF Ok(v.w) THEN Append(visit_log, <<g, time>>)
                       ELSE visit_log
       /\ last' = Op("Visit", g, time, IF v.r THEN 1 ELSE 0, gate[g])
  /\ nops' = nops + 1
  /\ UNCHANGED <<node_index, root, nvars, parents, held, register_null_gates,
                 null_gates, const_gates, swept, out, file, label_, thrown>>
  /\ UNCHANGED mefvars

CallClearVisits(ops) ==
  /\ Running(ops)
  /\ \E g \in DOMAIN gate :
       /\ gate' = ClearVisits(World, g).gate
       /\ visit_log' = SelectSeq(visit_log, LAMBDA e : e[1] # g)
       /\ last' = Op("ClearVisits", g, 0, 0, gate[g])
  /\ nops' = nops + 1
  /\ UNCHANGED <<node_index, root, nvars, parents, held, register_null_gates,
                 null_gates, const_gates, failed, swept, out, file, label_,
                 thrown>>
  /\ UNCHANGED mefvars

\* A sweep of the graph: the visit times are cleared from the root or from
\* a gate below it, or the graph is logged.
CallSweep(ops) ==
  /\ Running(ops)
  /\ root # 0
  /\ \/ \E start \in DOMAIN gate :
          LET s == ClearNodeVisits(World, root, start) IN
          /\ gate' = s.w.gate
          /\ failed' = s.w.failed
          /\ swept' = s.swept
          /\ visit_log' =
               SelectSeq(visit_log, LAMBDA e : e[1] \notin Range(s.swept))
          /\ last' = Op("ClearNodeVisits", start, 0, 0, gate[start])
     \/ LET s == Log(World, root) IN
          /\ gate' = s.w.gate
          /\ failed' = s.w.failed
          /\ swept' = s.swept
          /\ visit_log' = visit_log
          /\ last' = Op("Log", root, 0, 0, gate[root])
  /\ nops' = nops + 1
  /\ UNCHANGED <<node_index, root, nvars, parents, held, register_null_gates,
                 null_gates, const_gates, out, file, label_, thrown>>
  /\ UNCHANGED mefvars

\* ------------------------------------------------------------ the reporter
\* Reporter::Report(risk_an, out): what the stream has got after the call,
\* one entry for each element written; the report element is closed when
\* the function returns, early or not.
Report(risk_an, o) ==
  LET RECURSIVE Results(_)
      Results(s) ==
        IF s = <<>> THEN <<>>
        ELSE LET result == Head(s) IN
          (IF result.fault_tree_analysis
           THEN <<"sum-of-products">> ELSE <<>>)
          \o (IF result.probability_analysis
              THEN <<"probability">> ELSE <<>>)
          \o (IF result.importance_analysis
              THEN <<"importance">> ELSE <<>>)
          \o (IF result.uncertainty_analysis
              THEN <<"uncertainty">> ELSE <<>>)
          \o Results(Tail(s))
      head == o \o <<"xml", "report", "information">>
  IN IF risk_an.results = <<>> /\ risk_an.event_tree_results = 0
     THEN head \o <<"/report">>
     ELSE head \o <<"results">>
          \o (IF risk_an.probability_analysis
              THEN [k \in 1..risk_an.event_tree_results |-> "event-tree"]
              ELSE <<>>)
          \o Results(risk_an.results)
          \o <<"/results", "/report">>

\* The output file can be opened unless its directory is missing.
Writable(path) == path # "abracadabra.cadabraabra/output.txt"

\* A slip: the state of the file stream is not tested.
ReportFileUnchecked(risk_an, path, f) ==
  [file |-> IF Writable(path) THEN Report(risk_an, <<>>) ELSE f,
   thrown |-> "none"]

\* Reporter::Report(risk_an, file): the file is opened, which empties it;
\* a stream that is not good throws IOError; the report goes to the file.
\* f is the content of the file before.
ReportFile(risk_an, path, f) ==
  IF ~Writable(path) THEN [file |-> f, thrown |-> "IOError"]
  ELSE [file |-> Report(risk_an, <<>>), thrown |-> "none"]

\* A slip: a label is replaced by a later one.
labelAgain(l, new_label) ==
  IF new_label = "" THEN [label |-> l, thrown |-> "LogicError"]
  ELSE [label |-> new_label, thrown |-> "none"]

\* Element::label(new_label): l is the label before.
label(l, new_label) ==
  IF l # "" THEN [label |-> l, thrown |-> "LogicError"]
  ELSE IF new_label = "" THEN [label |-> l, thrown |-> "LogicError"]
  ELSE [label |-> new_label, thrown |-> "none"]

\* The report of an analysis goes to the stream or to a file.
CallReport(ops) ==
  /\ Running(ops)
  /\ \E probability_analysis \in BOOLEAN :
     \E event_tree_results \in 0..MaxResults :
     \E n \in 0..MaxResults :
     \E results \in [1..n -> [fault_tree_analysis : BOOLEAN,
                              probability_analysis : BOOLEAN,
                              importance_analysis : BOOLEAN,
                              uncertainty_analysis : BOOLEAN]] :
       LET risk_an == [probability_analysis |-> probability_analysis,
                       event_tree_results |-> event_tree_results,
                       results |-> results]
       IN \/ /\ out' = Report(risk_an, out)
             /\ thrown' = "none"
             /\ last' = [op |-> "Report", g |-> 0, index |-> 0, r |-> 0,
                         pre |-> NoGate, risk_an |-> risk_an, name |-> ""]
             /\ UNCHANGED file
          \/ \E path \in {"output.xml",
                          "abracadabra.cadabraabra/output.txt"} :
               LET c == ReportFile(risk_an, path, file) IN
               /\ file' = c.file
               /\ thrown' = c.thrown
               /\ last' = [op |-> "ReportFile", g |-> 0, index |-> 0,
                           r |-> 0, pre |-> NoGate, risk_an |-> risk_an,
                           name |-> path]
               /\ UNCHANGED out
  /\ nops' = nops + 1
  /\ UNCHANGED <<node_index, root, nvars, gate, parents, held,
                 register_null_gates, null_gates, const_gates, failed,
                 visit_log, swept, label_>>
  /\ UNCHANGED mefvars

\* The element is given a label.
CallLabel(ops) ==
  /\ Running(ops)
  /\ \E new_label \in {"", "label", "new_label"} :
       LET c == label(label_, new_label) IN
       /\ label_' = c.label
       /\ thrown' = c.thrown
       /\ last' = [op |-> "label", g |-> 0, index |-> 0, r |-> 0,
                   pre |-> NoGate, risk_an |-> <<>>, name |-> new_label]
  /\ nops' = nops + 1
  /\ UNCHANGED <<node_index, root, nvars, gate, parents, held,
                 register_null_gates, null_gates, const_gates, failed,
                 visit_log, swept, out, file>>
  /\ UNCHANGED mefvars

\* A graph of several gates under every operation.
Next ==
  \/ NewVariable(NumVars)
  \/ NewGate(MaxGates, MaxOps)
  \/ DropGate(MaxOps)
  \/ CallAddArg(MaxOps)
  \/ CallEraseArg(MaxOps)
  \/ CallInvertArgs(MaxOps)
  \/ CallInvertArg(MaxOps)
  \/ CallCoalesceGate(MaxOps)
  \/ CallJoinNullGate(MaxOps)
  \/ CallTransferArg(MaxOps)
  \/ CallShareArg(MaxOps)
  \/ CallProcessConstantArg(MaxOps)
  \/ CallMakeConstant(MaxOps)

Spec == Init /\ [][Next]_vars

\* One gate made by the caller, under the operations of a single gate.
NextGate ==
  \/ NewVariable(GateVars)
  \/ NewGate(1, GateOps)
  \/ CallAddArg(GateOps)
  \/ CallEraseArg(GateOps)
  \/ CallInvertArgs(GateOps)
  \/ CallInvertArg(GateOps)
  \/ CallProcessConstantArg(GateOps)
  \/ CallMakeConstant(GateOps)

SpecGate == Init /\ [][NextGate]_vars

\* Construction of a graph, its root and its hand-over, with the
\* operations that make gates constant or NULL-type.
NextPdag ==
  \/ NewVariable(PdagVars)
  \/ NewGate(PdagGates, PdagOps)
  \/ DropGate(PdagOps)
  \/ CallAddArg(PdagOps)
  \/ CallProcessConstantArg(PdagOps)
  \/ CallMakeConstant(PdagOps)
  \/ SetRoot(PdagOps)
  \/ HandOff

SpecPdag == Init /\ [][NextPdag]_vars

\* Gates over the Constant and over gates made constant, under constant
\* propagation, before and after the hand-over.
NextNull ==
  \/ NewGate(NullGates, NullOps)
  \/ CallAddArg(NullOps)
  \/ CallMakeConstant(NullOps)
  \/ CallProcessConstantArg(NullOps)
  \/ HandOff

SpecNull == Init /\ [][NextNull]_vars

\* Gates under AddArg with every argument its assertions let through.
NextFree ==
  \/ NewGate(FreeGates, FreeOps)
  \/ DropGate(FreeOps)
  \/ CallAddArgAny(FreeOps)
  \/ CallEraseArg(FreeOps)

SpecFree == Init /\ [][NextFree]_vars

\* Two gates and a variable under AddArg and JoinNullGate.
NextJoin ==
  \/ NewVariable(JoinVars)
  \/ NewGate(JoinGates, JoinOps)
  \/ CallAddArg(JoinOps)
  \/ CallJoinNullGate(JoinOps)

SpecJoin == Init /\ [][NextJoin]_vars

\* A root over a chain of NULL-type gates, the caller's own JoinNullGate
\* and the drain of the worklists.
NextChain ==
  \/ NewVariable(ChainVars)
  \/ HandOff
  \/ BuildChain
  \/ CallJoinNullGate(ChainOps)
  \/ DrainNull(ChainOps)
  \/ DrainConst(ChainOps)

SpecChain == Init /\ [][NextChain]_vars

\* Pdag::Pdag(root, ccf): the two passes over one formula of the model.
NextTranslate ==
  \/ GatherVariables
  \/ ConstructGate
  \/ AddArgBasicEvent
  \/ AddArgHouseEvent
  \/ ReturnGate

SpecTranslate == InitTranslate /\ [][NextTranslate]_vars

\* A graph of shared gates under Node::Visit and the sweeps.
NextSweep ==
  \/ NewVariable(SweepVars)
  \/ BuildDag({kAnd, kOr}, SweepGates, {{kVariableStartIndex}})
  \/ CallVisit(SweepOps, 0..MaxTime)
  \/ CallClearVisits(SweepOps)
  \/ CallSweep(SweepOps)

SpecSweep == Init /\ [][NextSweep]_vars

\* A graph of shared gates of one operator, over literals of the
\* Variables, under CoalesceGate and EraseArg.
NextCoalesce ==
  \/ NewVariable(CoalVars)
  \/ BuildDag({kAnd, kOr, kNand, kNor, kXor}, CoalGates,
              {S \in SUBSET {i \in Literals(World) :
                              Abs(i) >= kVariableStartIndex} :
                 Cardinality(S) <= MaxLits /\ \A i \in S : -i \notin S})
  \/ CallCoalesceGate(CoalOps)
  \/ CallEraseArgAny(CoalOps)

SpecCoalesce == Init /\ [][NextCoalesce]_vars

\* Reports of analyses, to a stream and to files, and an element under
\* Element::label.
NextReport ==
  \/ CallReport(ReportOps)
  \/ CallLabel(ReportOps)

SpecReport == Init /\ [][NextReport]_vars

\* ------------------------------------------------------ Boolean meaning
\* The value of an operator on n arguments of which ntrue are true.
Operate(t, k, ntrue, n) ==
  CASE t = kAnd  -> ntrue = n
    [] t = kOr   -> ntrue >= 1
    [] t = kVote -> ntrue >= k
    [] t = kXor  -> ntrue % 2 = 1
    [] t = kNot  -> ntrue = 0
    [] t = kNand -> ntrue < n
    [] t = kNor  -> ntrue = 0
    [] t = kNull -> ntrue >= 1

Assignments(w) == [{i \in Nodes(w) : IsVariableIndex(w, i)} -> BOOLEAN]

\* The value of the literal i under the assignment f to the Variables.
RECURSIVE Eval(_, _, _)
GateValue(w, g, f) ==
  LET G == w.gate[g] IN
  CASE G.state = kNullState  -> FALSE
    [] G.state = kUnityState -> TRUE
    [] OTHER -> Operate(G.type, G.vote_number,
                        Cardinality({i \in G.args : Eval(w, i, f)}),
                        Cardinality(G.args))

Eval(w, i, f) ==
  LET n == Abs(i)
      v == IF IsConstantIndex(n) THEN TRUE
           ELSE IF IsVariableIndex(w, n) THEN f[n]
           ELSE GateValue(w, n, f)
  IN IF i > 0 THEN v ELSE ~v

\* The values an operator can see: every valuation of the nodes under the
\* literals L.
Valuations(L) == [{Abs(i) : i \in L} -> BOOLEAN]
TrueIn(L, v) == {i \in L : IF i > 0 THEN v[i] ELSE ~v[-i]}

\* ----------------------------------------------------------------- claims
Entries(m, key) == Cardinality({k \in 1..Len(m) : m[k] = key})
IsArgOf(n, G) == n \in G.args \/ -n \in G.args
NoArgs(G) ==
  /\ G.args = {}
  /\ G.gate_args = <<>>
  /\ G.variable_args = <<>>
  /\ G.constant_args = <<>>

\* C1. Parent symmetry: for every live gate G and node n, n has an entry
\* keyed by G's index exactly when +n or -n is an argument of G, and then
\* exactly one; no entry names a gate that is gone; AddParent never meets an
\* existing key and EraseParent never a missing one.
ParentSymmetry ==
  /\ failed \notin {"AddParent", "EraseParent", "~Gate"}
  /\ \A n \in DOMAIN parents :
       /\ Range(parents[n]) \subseteq DOMAIN gate
       /\ \A g \in DOMAIN gate :
            Entries(parents[n], g) = IF IsArgOf(n, gate[g]) THEN 1 ELSE 0

\* A node with two parents after an operation that moves arguments between
\* gates.
ParentSymmetryWitness ==
  /\ failed = "none"
  /\ last.op \in {"TransferArg", "ShareArg", "CoalesceGate", "JoinNullGate"}
  /\ \E n \in DOMAIN parents : Len(parents[n]) = 2

\* C2. No gate holds a literal together with its complement.
NoComplementPair ==
  \A g \in DOMAIN gate : \A i \in gate[g].args : -i \notin gate[g].args

\* The complement of an argument was added to a K/N gate that keeps
\* arguments.
NoComplementPairWitness ==
  /\ failed = "none"
  /\ last.op = "AddArg"
  /\ -last.index \in last.pre.args
  /\ last.pre.type = kVote
  /\ last.g \in DOMAIN gate
  /\ gate[last.g].args # {}

\* C3. A gate in the Null or Unity state has no arguments, in the set and in
\* the three maps, and no node keeps a parent entry for it.
ConstantGateIsEmpty ==
  \A g \in DOMAIN gate :
    gate[g].state # kNormalState =>
      /\ NoArgs(gate[g])
      /\ \A n \in DOMAIN parents : ~MapHas(parents[n], g)

\* Constant propagation made a gate of two or more arguments constant.
ConstantGateIsEmptyWitness ==
  /\ failed = "none"
  /\ last.op = "ProcessConstantArg"
  /\ Cardinality(last.pre.args) >= 2
  /\ last.g \in DOMAIN gate
  /\ gate[last.g].state # kNormalState

\* C4. The state of a gate changes only from Normal to Null or Unity; a
\* gate that is Null or Unity keeps its state, type and arguments, and
\* AddArg or MakeConstant on it fails its precondition.
StateIsAbsorbing ==
  [][\A g \in DOMAIN gate \cap DOMAIN gate' :
       /\ gate'[g].state # gate[g].state =>
            gate[g].state = kNormalState /\ gate'[g].state # kNormalState
       /\ gate[g].state # kNormalState =>
            /\ gate'[g] = gate[g]
            /\ (last'.g = g /\ last'.op \in {"AddArg", "MakeConstantTrue",
                                              "MakeConstantFalse"})
                 => failed' # "none"]_vars

\* AddArg was called on a gate that had become Unity.
StateIsAbsorbingWitness ==
  /\ last.op = "AddArg"
  /\ last.pre.state = kUnityState
  /\ last.g \in DOMAIN gate
  /\ gate[last.g] = last.pre

\* C5. A second AddArg of an argument of a Normal AND, OR, NAND or NOR gate
\* changes nothing: the gate, every parent map and the rest of the graph
\* stay as they are, with one parent entry on the child.
DuplicateIsAbsorbed ==
  [][(/\ last'.op = "AddArg"
      /\ last'.g \in DOMAIN gate
      /\ gate[last'.g].state = kNormalState
      /\ gate[last'.g].type \in {kAnd, kOr, kNand, kNor}
      /\ last'.index \in gate[last'.g].args)
     => /\ failed' = "none"
        /\ gate' = gate
        /\ parents' = parents
        /\ node_index' = node_index
        /\ Entries(parents'[Abs(last'.index)], last'.g) = 1]_vars

\* A duplicate was added to a NAND gate of two arguments.
DuplicateIsAbsorbedWitness ==
  /\ failed = "none"
  /\ last.op = "AddArg"
  /\ last.pre.type = kNand
  /\ last.index \in last.pre.args
  /\ Cardinality(last.pre.args) = 2

ComplementCase ==
  /\ last.op = "AddArg"
  /\ Accepts(last.pre)
  /\ -last.index \in last.pre.args

\* C6. The complement of an argument of a Normal gate: AND and NOR end
\* Null, OR, NAND and XOR end Unity, without arguments; that constant is the
\* value of the operator on the old arguments and the new one, whatever
\* their values.
ComplementCollapses ==
  (ComplementCase /\ last.pre.type \in {kAnd, kNor, kOr, kNand, kXor}) =>
    LET G == gate[last.g]
        L == last.pre.args \cup {last.index}
    IN /\ failed = "none"
       /\ last.g \in DOMAIN gate
       /\ G.state = IF last.pre.type \in {kAnd, kNor} THEN kNullState
                    ELSE kUnityState
       /\ NoArgs(G)
       /\ \A v \in Valuations(L) :
            Operate(last.pre.type, last.pre.vote_number,
                    Cardinality(TrueIn(L, v)), Cardinality(L))
              = (G.state = kUnityState)

\* The complement of an argument was added to a NOR gate of two arguments.
ComplementCollapsesWitness ==
  /\ ComplementCase
  /\ last.pre.type = kNor
  /\ Cardinality(last.pre.args) = 2
  /\ gate[last.g].state = kNullState

XorDuplicateCase ==
  /\ last.op = "AddArg"
  /\ last.pre.type = kXor
  /\ last.pre.state = kNormalState
  /\ last.pre.args = {last.index}

\* C7. The only argument of a Normal XOR gate added again: the gate ends
\* Null without arguments, no copy is stored, and the child has no parent
\* entry for the gate.
XorDuplicateIsNull ==
  XorDuplicateCase =>
    /\ failed = "none"
    /\ last.g \in DOMAIN gate
    /\ gate[last.g].state = kNullState
    /\ gate[last.g].type = kXor
    /\ NoArgs(gate[last.g])
    /\ \A n \in DOMAIN parents : ~MapHas(parents[n], last.g)

\* A complemented gate argument of an XOR gate was added again.
XorDuplicateIsNullWitness ==
  /\ XorDuplicateCase
  /\ last.index < 0
  /\ -last.index \in DOMAIN gate
  /\ gate[last.g].state = kNullState

\* C8. A duplicate literal l of a Normal K/N gate over S with 1 < k < n: the
\* gate becomes OR of l and a new gate H; H takes the next index, above
\* every index issued before, and is a K/N gate with vote number k - 1 over
\* S without l; each of these arguments has a parent entry for H and none
\* for the gate.
VoteDuplicateStructure ==
  [][(/\ last'.op = "AddArg"
      /\ last'.g \in DOMAIN gate
      /\ gate[last'.g].state = kNormalState
      /\ gate[last'.g].type = kVote
      /\ last'.index \in gate[last'.g].args
      /\ 1 < gate[last'.g].vote_number
      /\ gate[last'.g].vote_number < Cardinality(gate[last'.g].args))
     => LET g == last'.g
            l == last'.index
            H == node_index'
            S == gate[g].args
        IN /\ failed' = "none"
           /\ node_index' = node_index + 1
           /\ H \notin DOMAIN parents
           /\ \A x \in DOMAIN parents : x < H
           /\ DOMAIN gate' = DOMAIN gate \cup {H}
           /\ gate'[g].state = kNormalState
           /\ gate'[g].type = kOr
           /\ gate'[g].args = {l, H}
           /\ gate'[H].state = kNormalState
           /\ gate'[H].type = kVote
           /\ gate'[H].vote_number = gate[g].vote_number - 1
           /\ gate'[H].args = S \ {l}
           /\ \A s \in S \ {l} :
                /\ Entries(parents'[Abs(s)], H) = 1
                /\ Entries(parents'[Abs(s)], g) = 0]_vars

VoteDuplicateCase ==
  /\ last.op = "AddArg"
  /\ last.pre.type = kVote
  /\ last.pre.state = kNormalState
  /\ last.index \in last.pre.args
  /\ 1 < last.pre.vote_number
  /\ last.pre.vote_number < Cardinality(last.pre.args)

\* An argument of a 2-of-3 gate was added again.
VoteDuplicateStructureWitness ==
  /\ VoteDuplicateCase
  /\ failed = "none"
  /\ last.pre.vote_number = 2
  /\ Cardinality(last.pre.args) = 3
  /\ gate[last.g].type = kOr

\* C9. After a duplicate literal of a K/N gate over S with 1 < k < n the gate
\* has, under every assignment, the value of the k-of-n gate over S.
VoteDuplicateMeaning ==
  (VoteDuplicateCase /\ failed = "none") =>
    \A f \in Assignments(World) :
      GateValue(World, last.g, f)
        = (Cardinality({i \in last.pre.args : Eval(World, i, f)})
             >= last.pre.vote_number)

\* C10. After the complement of an argument x of a Normal K/N gate over S
\* the gate has, under every assignment, the value of "at least k of the
\* literals of S and not-x".
VoteComplementMeaning ==
  (ComplementCase /\ last.pre.type = kVote /\ failed = "none") =>
    \A f \in Assignments(World) :
      GateValue(World, last.g, f)
        = (Cardinality({i \in last.pre.args \cup {last.index} :
                          Eval(World, i, f)})
             >= last.pre.vote_number)

\* ------------------------------------------------- constant propagation
\* A step of ProcessConstantArg on a Normal gate, the truth value of its
\* argument with the sign folded in, and the other arguments.
PcaStep ==
  /\ last'.op = "ProcessConstantArg"
  /\ last'.g \in DOMAIN gate
  /\ gate[last'.g].state = kNormalState

PcaValue ==
  LET arg == Abs(last'.index)
      st  == IsConstantIndex(arg) \/ gate[arg].state = kUnityState
  IN IF last'.index < 0 THEN ~st ELSE st

PcaRest == gate[last'.g].args \ {last'.index}

\* The value of a gate record when its arguments take the values v.
ValueUnder(G, v) ==
  CASE G.state = kNullState  -> FALSE
    [] G.state = kUnityState -> TRUE
    [] OTHER -> Operate(G.type, G.vote_number,
                        Cardinality(TrueIn(G.args, v)), Cardinality(G.args))

\* The value of the operator of G over the arguments L and one more
\* argument of the value c.
FixedUnder(G, L, c, v) ==
  Operate(G.type, G.vote_number,
          Cardinality(TrueIn(L, v)) + (IF c THEN 1 ELSE 0),
          Cardinality(L) + 1)

\* The gate after the step computes its old operator with the constant put
\* in, whatever the other arguments are.
PcaKeepsMeaning ==
  /\ last'.g \in DOMAIN gate'
  /\ gate'[last'.g].args \subseteq PcaRest
  /\ \A v \in Valuations(PcaRest) :
       ValueUnder(gate'[last'.g], v)
         = FixedUnder(gate[last'.g], PcaRest, PcaValue, v)

\* C11. ProcessConstantArg on a Normal AND, NAND, OR, NOR, NOT or NULL gate:
\* the argument counts as true exactly when the constant's value with the
\* sign of its index in the gate is true; AND/true, NAND/true, OR/false and
\* NOR/false remove the argument and an emptied gate becomes Unity, Null,
\* Null, Unity; AND/false and NOR/true give Null, NAND/false and OR/true give
\* Unity; NOT gives Null on true and Unity on false, NULL the reverse; the
\* gate then computes its operator with the argument fixed to the constant.
ConstantCollapse ==
  [][(PcaStep /\ gate[last'.g].type \in {kAnd, kNand, kOr, kNor, kNot, kNull})
     => LET t  == gate[last'.g].type
            G1 == gate'[last'.g]
            removes == \/ t \in {kAnd, kNand} /\ PcaValue
                       \/ t \in {kOr, kNor} /\ ~PcaValue
            unity == IF removes THEN t \in {kAnd, kNor}
                     ELSE \/ t \in {kNand, kNot} /\ ~PcaValue
                          \/ t \in {kOr, kNull} /\ PcaValue
        IN /\ failed' = "none"
           /\ PcaKeepsMeaning
           /\ IF removes /\ PcaRest # {}
              THEN G1.state = kNormalState /\ G1.args = PcaRest
              ELSE /\ NoArgs(G1)
                   /\ G1.state = IF unity THEN kUnityState ELSE kNullState]_vars

\* A NAND gate of two arguments held the complement of the Constant: a
\* false argument, and the gate is Unity.
ConstantCollapseWitness ==
  /\ failed = "none"
  /\ last.op = "ProcessConstantArg"
  /\ last.pre.type = kNand
  /\ last.index = -1
  /\ Cardinality(last.pre.args) = 2
  /\ gate[last.g].state = kUnityState

\* C12. ProcessConstantArg on a Normal XOR gate of the constant and one
\* other literal x: the constant is removed, x is the single argument, the
\* type is NULL for a positive x and NOT for a negative x, for a true and a
\* false constant alike, and the gate is equivalent to the XOR of x with
\* the constant.
XorConstantCollapse ==
  [][(PcaStep /\ gate[last'.g].type = kXor
        /\ Cardinality(gate[last'.g].args) = 2)
     => /\ failed' = "none"
        /\ PcaKeepsMeaning
        /\ gate'[last'.g].state = kNormalState
        /\ gate'[last'.g].args = PcaRest
        /\ \A x \in PcaRest :
             gate'[last'.g].type = IF x > 0 THEN kNull ELSE kNot]_vars

\* C13. ProcessConstantArg on a Normal K/N gate: a true constant is removed
\* and the vote number goes down by one (Unity at 0, AND when it equals the
\* number of arguments left, OR when it is 1); a false constant is removed
\* (AND when the number left equals the vote number, Null when it is
\* below); the gate is equivalent to the old K/N gate with the constant put
\* in, and the constant is no argument of it any more.
VoteConstantCollapse ==
  [][(PcaStep /\ gate[last'.g].type = kVote)
     => LET G1 == gate'[last'.g]
            k  == gate[last'.g].vote_number
            n  == Cardinality(PcaRest)
        IN /\ failed' = "none"
           /\ PcaKeepsMeaning
           /\ last'.index \notin G1.args
           /\ ~MapHas(parents'[Abs(last'.index)], last'.g)
           /\ IF PcaValue
              THEN IF k - 1 = 0
                   THEN G1.state = kUnityState /\ NoArgs(G1)
                   ELSE /\ G1.state = kNormalState
                        /\ G1.args = PcaRest
                        /\ G1.vote_number = k - 1
                        /\ G1.type = IF k - 1 = n THEN kAnd
                                     ELSE IF k - 1 = 1 THEN kOr ELSE kVote
              ELSE IF n < k
                   THEN G1.state = kNullState /\ NoArgs(G1)
                   ELSE /\ G1.state = kNormalState
                        /\ G1.args = PcaRest
                        /\ G1.vote_number = k
                        /\ G1.type = IF n = k THEN kAnd ELSE kVote]_vars

\* A 3-of-3 gate held the Constant: 2-of-2 is left, an AND gate.
VoteConstantCollapseWitness ==
  /\ failed = "none"
  /\ last.op = "ProcessConstantArg"
  /\ last.pre.type = kVote
  /\ last.pre.vote_number = 3
  /\ last.index = 1
  /\ Cardinality(last.pre.args) = 3
  /\ gate[last.g].type = kAnd
  /\ gate[last.g].vote_number = 2

\* ----------------------------------------------------------------- indices
\* The live nodes that are neither the Constant nor a gate.
VariableNodes == DOMAIN parents \ ({1} \cup DOMAIN gate)

\* C14. Index blocks: the Constant has index 1, the Variables have exactly
\* the indices 2..V+1, and every gate, a helper gate of a rewrite included,
\* has an index of at least 2+V; the typed argument maps follow the blocks.
IndexBlocks ==
  /\ 1 \in DOMAIN parents
  /\ 1 \notin DOMAIN gate
  /\ VariableNodes = kVariableStartIndex..(nvars + kVariableStartIndex - 1)
  /\ \A g \in DOMAIN gate :
       /\ g >= nvars + kVariableStartIndex
       /\ \A i \in Range(gate[g].variable_args) : Abs(i) \in VariableNodes
       /\ \A i \in Range(gate[g].gate_args) : Abs(i) \in DOMAIN gate
       /\ \A i \in Range(gate[g].constant_args) : Abs(i) = 1

\* A rewrite of a K/N gate over two Variables and the Constant made a
\* helper gate.
IndexBlocksWitness ==
  /\ VoteDuplicateCase
  /\ failed = "none"
  /\ nvars = 2
  /\ node_index \in DOMAIN gate
  /\ node_index \notin held
  /\ gate[node_index].variable_args # <<>>

\* The nodes a step creates.
Created == DOMAIN parents' \ DOMAIN parents

\* C15. Every node created takes an index above every index issued before,
\* to nodes alive or destroyed: the counter never goes down, no live node
\* is above it, and a new node is above its old value.
IndexIsFresh ==
  [][/\ node_index' >= node_index
     /\ \A n \in DOMAIN parents : n <= node_index
     /\ \A n \in Created : n > node_index /\ n <= node_index'
     /\ Cardinality(Created) <= node_index' - node_index
     /\ last'.op = "Gate" =>
          last'.g > node_index /\ last'.g \notin DOMAIN parents
     /\ last'.op = "Variable" =>
          last'.index > node_index /\ last'.index \notin DOMAIN parents]_vars

\* A gate was made after an earlier gate had been destroyed: the index of
\* the destroyed gate stays unused.
IndexIsFreshWitness ==
  /\ failed = "none"
  /\ last.op = "Gate"
  /\ \E i \in 2..(node_index - 1) : i \notin DOMAIN parents

\* C16. Right after Pdag::Pdag() the counter is 1, the Constant with index 1
\* is the only node, the root is unset and the next node made takes index
\* 2; no later node takes index 1 and the Constant stays.
Bootstrap ==
  [][/\ last.op = "Pdag" =>
          /\ node_index = 1
          /\ DOMAIN parents = {1}
          /\ DOMAIN gate = {}
          /\ nvars = 0
          /\ root = 0
          /\ last'.op = "Gate" => last'.g = 2 /\ Created = {2}
          /\ last'.op = "Variable" => last'.index = 2 /\ Created = {2}
     /\ 1 \in DOMAIN parents'
     /\ 1 \notin DOMAIN gate'
     /\ 1 \notin Created
     /\ last'.op = "Gate" => last'.g # 1
     /\ last'.op = "Variable" => last'.index # 1]_vars

\* The first node made in a new graph is a gate, and it becomes the root.
BootstrapWitness ==
  /\ failed = "none"
  /\ last.op = "root"
  /\ root = 2
  /\ nvars = 0

\* -------------------------------------------------------------- acyclicity
\* The nodes under the nodes S, by argument edges.
Children(S) == {Abs(i) : i \in UNION {gate[g].args : g \in S \cap DOMAIN gate}}

RECURSIVE Closure(_)
Closure(S) ==
  LET T == S \cup Children(S) IN IF T = S THEN S ELSE Closure(T)

Acyclic == \A g \in DOMAIN gate : g \notin Closure(Children({g}))

\* C17. After every operation of a run in which every assertion of AddArg
\* held (non-zero index of the child, Normal state, arity limits), no gate is
\* reachable from itself by argument edges.
Acyclicity == failed = "none" => Acyclic

\* ------------------------------------------------------------------- arity
\* C18 as stated. After every mutation every Normal NOT or NULL gate has
\* exactly one argument, every XOR gate exactly two, every K/N gate a vote
\* number k with 1 < k < number of arguments, and every AND, OR, NAND or NOR
\* gate at least one argument.
ArityPerOperator ==
  \A g \in DOMAIN gate :
    LET G == gate[g]
        n == Cardinality(G.args)
    IN G.state = kNormalState =>
         CASE G.type \in {kNot, kNull} -> n = 1
           [] G.type = kXor -> n = 2
           [] G.type = kVote -> 1 < G.vote_number /\ G.vote_number < n
           [] OTHER -> n >= 1

\* C18 as amended. After every mutation every Normal NOT or NULL gate has at
\* most one argument and every Normal XOR gate at most two: the limits
\* AddArg asserts. The lower limits are the caller's to restore.
ArityLimits ==
  \A g \in DOMAIN gate :
    LET G == gate[g]
        n == Cardinality(G.args)
    IN G.state = kNormalState =>
         /\ G.type \in {kNot, kNull} => n <= 1
         /\ G.type = kXor => n <= 2

\* AddArg on an XOR gate of two arguments was stopped by its assertion.
ArityLimitsWitness ==
  /\ last.op = "AddArg"
  /\ last.pre.type = kXor
  /\ Cardinality(last.pre.args) = 2
  /\ failed = "AddArg"
  /\ gate[last.g] = last.pre

\* --------------------------------------------------------------- worklists
IsPrefix(a, b) == Len(a) <= Len(b) /\ SubSeq(b, 1, Len(a)) = a
Appended(a, b) == Range(SubSeq(b, Len(a) + 1, Len(b)))

\* The gates that a step turns into NULL-type gates.
BecameNull ==
  {g \in DOMAIN gate \cap DOMAIN gate' :
     gate[g].type # kNull /\ gate'[g].type = kNull}

\* C19. The worklists only grow, and only by gates that have just become
\* NULL-type gates of one argument while register_null_gates is true: such a
\* gate goes to const_gates when its argument is the Constant and to
\* null_gates otherwise, never to both; while register_null_gates is false
\* both worklists stay as they are.
WorklistRegistration ==
  [][/\ IsPrefix(null_gates, null_gates')
     /\ IsPrefix(const_gates, const_gates')
     /\ ~register_null_gates =>
          null_gates' = null_gates /\ const_gates' = const_gates
     /\ Appended(null_gates, null_gates')
          \cup Appended(const_gates, const_gates') \subseteq BecameNull
     /\ Appended(null_gates, null_gates')
          \cap Appended(const_gates, const_gates') = {}
     /\ Len(null_gates') + Len(const_gates')
          <= Len(null_gates) + Len(const_gates) + Cardinality(BecameNull)
     /\ \A g \in BecameNull :
          /\ Cardinality(gate'[g].args) = 1
          /\ register_null_gates =>
               IF gate'[g].args \subseteq {1, -1}
               THEN g \in Appended(const_gates, const_gates')
               ELSE g \in Appended(null_gates, null_gates')]_vars

\* After the hand-over, a gate left with the Constant alone was put on
\* const_gates.
WorklistRegistrationWitness ==
  /\ failed = "none"
  /\ register_null_gates
  /\ last.op = "ProcessConstantArg"
  /\ const_gates = <<last.g>>
  /\ null_gates = <<>>
  /\ gate[last.g].args \subseteq {1, -1}

\* C20. While the graph is constructed register_null_gates is false and
\* both worklists are empty, whatever rewrites fire; the hand-over leaves
\* the flag true, and it stays true.
WorklistsEmptyInConstruction ==
  [][/\ last.op = "Pdag" => ~register_null_gates
     /\ ~register_null_gates => null_gates = <<>> /\ const_gates = <<>>
     /\ ~register_null_gates' => null_gates' = <<>> /\ const_gates' = <<>>
     /\ last'.op = "HandOff" => register_null_gates'
     /\ register_null_gates => register_null_gates']_vars

\* A rewrite made a NULL-type gate during construction and no worklist
\* took it.
WorklistsEmptyInConstructionWitness ==
  /\ failed = "none"
  /\ ~register_null_gates
  /\ last.op = "ProcessConstantArg"
  /\ last.pre.type = kXor
  /\ gate[last.g].type = kNull
  /\ null_gates = <<>>
  /\ const_gates = <<>>

\* ----------------------------------------------------- structural helpers
\* C25. De Morgan round trip: on a Normal gate without constant arguments
\* InvertArgs negates every element of args and every key of the typed
\* maps, keeps each child in its place and leaves the parent entries alone;
\* InvertArgs applied again gives back the gate as it was.
DeMorganRoundTrip ==
  [][(last'.op = "InvertArgs" /\ failed' = "none") =>
       LET g  == last'.g
           w2 == InvertArgs(InvertArgs(World, g), g)
       IN /\ gate'[g].args = {-i : i \in gate[g].args}
          /\ Len(gate'[g].gate_args) = Len(gate[g].gate_args)
          /\ \A k \in 1..Len(gate[g].gate_args) :
               gate'[g].gate_args[k] = -gate[g].gate_args[k]
          /\ Len(gate'[g].variable_args) = Len(gate[g].variable_args)
          /\ \A k \in 1..Len(gate[g].variable_args) :
               gate'[g].variable_args[k] = -gate[g].variable_args[k]
          /\ parents' = parents
          /\ gate' = InvertArgs(World, g).gate
          /\ w2.failed = "none"
          /\ w2.gate = gate
          /\ w2.parents = parents]_vars

\* InvertArgs on a gate over a gate and a variable, of both signs.
DeMorganRoundTripWitness ==
  /\ failed = "none"
  /\ last.op = "InvertArgs"
  /\ last.pre.state = kNormalState
  /\ last.pre.gate_args # <<>>
  /\ last.pre.variable_args # <<>>
  /\ \E i, j \in last.pre.args : i > 0 /\ j < 0
  /\ gate[last.g].args = {-i : i \in last.pre.args}

\* The JoinNullGate step at hand: the NULL-type gate N that G holds at the
\* signed index i, the single argument x of N, and the literal G takes.
JoinStep == last'.op = "JoinNullGate" /\ failed' = "none"
JoinN == Abs(last'.index)
JoinX == CHOOSE x \in gate[JoinN].args : TRUE
JoinY == Sign(last'.index) * JoinX

\* C22. The sign law of JoinNullGate: G holding the NULL-type gate N with
\* sign s1, N holding X with sign s2; after G.JoinNullGate G does not hold
\* N and N has no parent entry for G; G holds X with sign s1*s2 and X has
\* one parent entry for G, unless that literal or its complement was an
\* argument of G already: then G is what the duplicate or the complement
\* rule makes of it.
JoinNullSignLaw ==
  [][JoinStep =>
       LET g == last'.g
           i == last'.index
           G == gate[g]
           w == EraseArg(World, g, i)
       IN /\ i \notin gate'[g].args /\ -i \notin gate'[g].args
          /\ ~MapHas(gate'[g].gate_args, i)
          /\ JoinN \in DOMAIN parents' => ~MapHas(parents'[JoinN], g)
          /\ IF JoinY \in G.args
             THEN gate'[g] = ProcessDuplicateArg(w, g, JoinY).gate[g]
             ELSE IF -JoinY \in G.args
             THEN gate'[g] = ProcessComplementArg(w, g, JoinY).gate[g]
             ELSE /\ gate'[g].args = (G.args \ {i}) \cup {JoinY}
                  /\ gate'[g].type = G.type
                  /\ gate'[g].state = G.state
                  /\ Entries(parents'[Abs(JoinY)], g) = 1
                  /\ IsArgOf(Abs(JoinY), gate'[g])]_vars

\* G held the complement of N, N the complement of x: G holds x.
JoinNullSignLawWitness ==
  /\ failed = "none"
  /\ last.op = "JoinNullGate"
  /\ last.index < 0
  /\ \E x \in gate[last.g].args :
       /\ x > 1
       /\ gate[-last.index].type = kNull
       /\ gate[-last.index].args = {-x}
       /\ x \notin last.pre.args
       /\ -x \notin last.pre.args
       /\ gate[last.g].args = (last.pre.args \ {last.index}) \cup {x}
       /\ Entries(parents[x], last.g) = 1

\* ------------------------------------------------------------ the drain
\* C21. Worklist entries are weak: no gate lives by being on a worklist, so
\* a gate that lost its last owner is gone though its entry remains; a drain
\* step that meets such an entry takes it off its worklist and changes
\* nothing else, the entries that remain keep their order.
WorklistEntriesAreWeak ==
  [][/\ failed' = "none" =>
          \A g \in DOMAIN gate' :
            \/ g \in held' \cup {root'}
            \/ \E p \in DOMAIN gate' :
                 \E i \in Range(gate'[p].gate_args) : Abs(i) = g
     /\ (last'.op = "DrainNull" /\ last'.g \notin DOMAIN gate) =>
          /\ null_gates[last'.index] = last'.g
          /\ null_gates' = RemoveAt(null_gates, last'.index)
          /\ const_gates' = const_gates
          /\ UNCHANGED <<node_index, root, nvars, gate, parents, held,
                         register_null_gates, failed>>
     /\ (last'.op = "DrainConst" /\ last'.g \notin DOMAIN gate) =>
          /\ const_gates[last'.index] = last'.g
          /\ const_gates' = RemoveAt(const_gates, last'.index)
          /\ null_gates' = null_gates
          /\ UNCHANGED <<node_index, root, nvars, gate, parents, held,
                         register_null_gates, failed>>]_vars

\* The drainer has passed the entry of a gate that is gone, and the entry
\* of a live gate is still to be drained.
WorklistEntriesAreWeakWitness ==
  /\ failed = "none"
  /\ last.op = "DrainNull"
  /\ last.pre = NoGate
  /\ last.g \notin DOMAIN gate
  /\ last.g \notin Range(null_gates)
  /\ \E n \in Range(null_gates) :
       n \in DOMAIN gate /\ IsArgOf(n, gate[root])

\* The literal below a literal: through NULL-type gates of one argument,
\* the signs on the way multiplied.
RECURSIVE Through(_)
Through(i) ==
  IF /\ Abs(i) \in DOMAIN gate
     /\ gate[Abs(i)].type = kNull
     /\ Cardinality(gate[Abs(i)].args) = 1
  THEN Sign(i) * Through(CHOOSE x \in gate[Abs(i)].args : TRUE)
  ELSE i

RootLiteral == Through(CHOOSE x \in gate[root].args : TRUE)

\* The root holds one argument, which is a variable or a chain of NULL-type
\* gates down to a variable.
RootOverChain ==
  /\ root # 0
  /\ gate[root].state = kNormalState
  /\ Cardinality(gate[root].args) = 1
  /\ IsVariableIndex(World, Abs(RootLiteral))

\* C23. NULL-chain collapse: a root over a chain of NULL-type gates down to
\* a variable v keeps, under every step of the drain, one argument that
\* leads to v with the same product of signs; once the null-gate worklist
\* is empty that argument is v itself with that sign, and no gate but the
\* root is left.
NullChainCollapse ==
  [][RootOverChain =>
       /\ failed' = "none"
       /\ root' = root
       /\ RootOverChain'
       /\ RootLiteral' = RootLiteral
       /\ gate'[root].type = gate[root].type
       /\ null_gates' = <<>> =>
            /\ gate'[root].args = {RootLiteral}
            /\ DOMAIN gate' = {root}]_vars

\* An AND root over two NULL-type gates, the worklist drained: the root
\* holds the complement of the variable, the product of the signs.
NullChainCollapseWitness ==
  /\ failed = "none"
  /\ last.op = "DrainNull"
  /\ null_gates = <<>>
  /\ root = 5
  /\ gate[root].type = kAnd
  /\ gate[root].args = {-2}
  /\ DOMAIN gate = {root}

\* The invariants of the graph but the arity of the operators: indices in
\* blocks with the one Constant at index 1, no cycle, parent symmetry, no
\* complement pair, no arguments in a constant gate.
Sound ==
  /\ failed = "none"
  /\ IndexBlocks
  /\ Acyclic
  /\ ParentSymmetry
  /\ NoComplementPair
  /\ ConstantGateIsEmpty

DrainStep == last'.op \in {"DrainNull", "DrainConst"}

EventSet(f) == Range(EventsOf(f))

\* C29. Variable allocation: the translation makes one Variable for each
\* distinct basic event of the formula, however often the event occurs, and
\* none for a house event; every Variable exists before the first gate is
\* created; basic_events() maps the indices 2..V+1 one-to-one onto the
\* distinct basic events.
VariableAllocation ==
  [][/\ nvars' # nvars =>
          /\ gate = <<>> /\ gate' = <<>>
          /\ nvars' = nvars + 1
          /\ last'.op = "GatherVariables"
          /\ last'.index \notin Range(basic_events)
     /\ gate' # <<>> => nvars' = Cardinality(EventSet(mef'.formula))
     /\ Len(basic_events') = nvars'
     /\ \A i, j \in 1..Len(basic_events') :
          basic_events'[i] = basic_events'[j] => i = j
     /\ Range(basic_events') \subseteq EventSet(mef'.formula)
     /\ VariableNodes' = kVariableStartIndex..(nvars' + 1)
     /\ mef'.done => Range(basic_events') = EventSet(mef'.formula)]_vars

\* The translation is over for a formula with a house event, a
\* sub-formula and a basic event that occurs in both formulas.
VariableAllocationWitness ==
  /\ mef.done
  /\ failed = "none"
  /\ Len(mef.formula.args) = 2
  /\ mef.formula.args[1].kind = "basic"
  /\ mef.formula.args[2].kind = "formula"
  /\ mef.formula.args[2].sub.args[1].kind = "house"
  /\ EventsOf(mef.formula) = <<1, 1>>
  /\ basic_events = <<1>>
  /\ VariableNodes = {2}

\* The two-train system: top = A AND B, A = p1 OR v1, B = p2 OR v2, with
\* p1, v1, p2, v2 the basic events 1, 2, 3, 4.
TwoTrain ==
  LET Train(p, v) ==
        [type |-> kOr, k |-> 0,
         args |-> <<BasicArg(p, FALSE), BasicArg(v, FALSE)>>]
  IN [type |-> kAnd, k |-> 0,
      args |-> <<FormulaArg(Train(1, 2), FALSE),
                 FormulaArg(Train(3, 4), FALSE)>>]

\* The minimal sets of basic events whose occurrence makes the root true.
MinimalCutSets ==
  LET CutSets ==
        {S \in SUBSET VariableNodes :
           Eval(World, root, [v \in VariableNodes |-> v \in S])}
  IN {{basic_events[v - 1] : v \in S} :
        S \in {S \in CutSets : \A T \in CutSets : T \subseteq S => T = S}}

\* C26. Two-train translation: the graph of the two-train system has
\* exactly 4 variables at the indices 2..5 and 3 gates, its root is an AND
\* gate, and its minimal cut sets are {p1,p2}, {p1,v2}, {p2,v1}, {v1,v2}.
TwoTrainTranslation ==
  mef.formula = TwoTrain =>
    /\ failed = "none"
    /\ mef.done =>
         /\ nvars = 4
         /\ VariableNodes = 2..5
         /\ Cardinality(DOMAIN gate) = 3
         /\ gate[root].type = kAnd
         /\ MinimalCutSets = {{1, 3}, {1, 4}, {3, 2}, {2, 4}}

\* The two-train system has been translated.
TwoTrainTranslationWitness ==
  /\ mef.formula = TwoTrain
  /\ mef.done
  /\ root \in DOMAIN gate

\* top = a AND b AND h: an AND formula over two distinct basic events and
\* then one house event.
IsAndOverHouse(f) ==
  /\ f.type = kAnd
  /\ Len(f.args) = 3
  /\ f.args[3].kind = "house"
  /\ \A j \in 1..2 : f.args[j].kind = "basic" /\ ~f.args[j].neg
  /\ Cardinality(EventSet(f)) = 2

\* C27. House-event propagation: right after the translation of
\* top = a AND b AND h the root is an AND gate over the Variables of a and b
\* alone, the Constant not among its arguments, when h is TRUE; the root is
\* in the Null state when h is FALSE.
HouseEventPropagation ==
  IsAndOverHouse(mef.formula) =>
    /\ failed = "none"
    /\ mef.done =>
         LET h == mef.formula.args[3]
         IN IF h.id = 1
            THEN /\ gate[root].type = kAnd
                 /\ gate[root].state = kNormalState
                 /\ gate[root].args = {2, 3}
                 /\ gate[root].constant_args = <<>>
                 /\ gate[root].gate_args = <<>>
            ELSE gate[root].state = kNullState

\* a AND b AND h has been translated with h TRUE.
HouseEventPropagationWitness ==
  /\ mef.done
  /\ mef.formula =
       [type |-> kAnd, k |-> 0,
        args |-> <<BasicArg(1, FALSE), BasicArg(2, FALSE), HouseArg(TRUE)>>]
  /\ gate[root].args = {2, 3}

\* The value of a formula of the model when the basic events in a occur.
RECURSIVE FormulaValue(_, _)
FormulaValue(f, a) ==
  LET ArgValue(x) ==
        LET v == CASE x.kind = "basic"   -> a[x.id]
                   [] x.kind = "house"   -> x.id = 1
                   [] x.kind = "formula" -> FormulaValue(x.sub, a)
        IN IF x.neg THEN ~v ELSE v
  IN Operate(f.type, f.k,
             Cardinality({j \in 1..Len(f.args) : ArgValue(f.args[j])}),
             Len(f.args))

\* The value of the root when the basic events in a occur.
RootValue(a) ==
  Eval(World, root, [v \in VariableNodes |-> a[basic_events[v - 1]]])

\* C28. Translation preserves meaning: for every formula of the model the
\* Boolean function of the root, a Null gate reading FALSE and a Unity gate
\* TRUE, equals that of the formula under every assignment to the basic
\* events.
TranslationKeepsMeaning ==
  /\ mef.formula # NoFormula => failed = "none"
  /\ mef.done =>
       \A a \in [EventSet(mef.formula) -> BOOLEAN] :
         RootValue(a) = FormulaValue(mef.formula, a)

\* C30. Graph flags: after the translation coherent() is true only if no
\* gate has a negative argument index or the type NOT, NAND, NOR or XOR, and
\* normal() is true only if every gate has the type AND or OR.
GraphFlags ==
  (mef.done /\ failed = "none") =>
    /\ coherent =>
         \A g \in DOMAIN gate :
           /\ \A i \in gate[g].args : i > 0
           /\ gate[g].type \notin {kNot, kNand, kNor, kXor}
    /\ normal => \A g \in DOMAIN gate : gate[g].type \in {kAnd, kOr}

\* A formula over a sub-formula with a FALSE house event has become a
\* coherent and normal graph of two gates.
GraphFlagsWitness ==
  /\ mef.done
  /\ failed = "none"
  /\ coherent
  /\ normal
  /\ Len(mef.formula.args) = 2
  /\ mef.formula.args[2].kind = "formula"
  /\ mef.formula.args[2].sub.args[2] = HouseArg(FALSE)
  /\ Cardinality(DOMAIN gate) = 2

\* ------------------------------------------------------------ lifetime
\* C31 as stated. A gate other than the root that was an argument of a live
\* gate and is an argument of no live gate after an operation has been
\* destroyed by it.
GateDiesWithLastParent ==
  [][failed' = "none" =>
       \A g \in DOMAIN gate :
         (/\ g # root'
          /\ \E p \in DOMAIN gate : IsArgOf(g, gate[p])
          /\ ~\E p \in DOMAIN gate' : IsArgOf(g, gate'[p]))
         => g \notin DOMAIN gate']_vars

\* C31 as amended. A gate lives exactly while a GatePtr to it exists (the
\* caller's, the root of the graph, or the argument map of a live gate), so
\* a gate that nobody else holds is destroyed exactly when it stops being
\* an argument of every live gate; the assertion of the destructor never
\* fails; after an operation no parent map names a destroyed gate and no
\* live gate has a destroyed argument, the arguments left without an owner
\* being destroyed with it.
GateLifetime ==
  [][/\ failed' # "~Gate"
     /\ failed' = "none" =>
          /\ held' \cup (IF root' = 0 THEN {} ELSE {root'}) \subseteq
               DOMAIN gate'
          /\ \A g \in DOMAIN gate \cup DOMAIN gate' :
               g \in DOMAIN gate' <=>
                 \/ g \in held' \cup {root'}
                 \/ \E p \in DOMAIN gate' : IsArgOf(g, gate'[p])
          /\ \A n \in DOMAIN parents' :
               \A p \in Range(parents'[n]) : p \in DOMAIN gate'
          /\ \A p \in DOMAIN gate' :
               \A i \in gate'[p].args : Abs(i) \in DOMAIN parents']_vars

\* The caller let go of a gate that nobody else held: it is gone, and so
\* is the gate argument that it alone owned.
GateLifetimeWitness ==
  /\ failed = "none"
  /\ last.op = "Drop"
  /\ last.g \notin DOMAIN gate
  /\ \E a \in Range(last.pre.gate_args) :
       /\ Abs(a) \notin DOMAIN gate
       /\ Abs(a) \notin DOMAIN parents

\* ------------------------------------------------- inversion of one argument
\* C37. InvertArg(i) on a Normal gate that holds i: the arguments are the
\* old ones with -i in the place of i, the child is in the typed map it was
\* in, now under -i, it has one parent entry for the gate, type, state and
\* vote number are the old ones, no assertion fails and no worklist grows:
\* the rules of AddArg for a duplicate and for a complement do not fire.
InvertArgFlipsOne ==
  [][(/\ last'.op = "InvertArg"
      /\ nops' = nops + 1
      /\ last'.pre.state = kNormalState) =>
       LET g == last'.g
           i == last'.index
           pre == last'.pre
       IN /\ failed' = "none"
          /\ g \in DOMAIN gate'
          /\ gate'[g].args = (pre.args \ {i}) \cup {-i}
          /\ Range(gate'[g].gate_args) =
               IF MapHas(pre.gate_args, i)
               THEN (Range(pre.gate_args) \ {i}) \cup {-i}
               ELSE Range(pre.gate_args)
          /\ Range(gate'[g].variable_args) =
               IF MapHas(pre.variable_args, i)
               THEN (Range(pre.variable_args) \ {i}) \cup {-i}
               ELSE Range(pre.variable_args)
          /\ gate'[g].constant_args = <<>>
          /\ Len(gate'[g].gate_args) = Len(pre.gate_args)
          /\ Len(gate'[g].variable_args) = Len(pre.variable_args)
          /\ Entries(parents'[Abs(i)], g) = 1
          /\ gate'[g].type = pre.type
          /\ gate'[g].state = pre.state
          /\ gate'[g].vote_number = pre.vote_number
          /\ null_gates' = null_gates
          /\ const_gates' = const_gates]_vars

\* The complement of a gate argument of a gate of two arguments was made
\* positive.
InvertArgFlipsOneWitness ==
  /\ failed = "none"
  /\ last.op = "InvertArg"
  /\ last.index < 0
  /\ MapHas(last.pre.gate_args, last.index)
  /\ Cardinality(last.pre.args) = 2
  /\ MapHas(gate[last.g].gate_args, -last.index)
  /\ Cardinality(gate[last.g].args) = 2

\* ------------------------------------------------------- the typed maps
\* C40. Typed-map partition: in every state of every live gate the keys of
\* the gate, variable and constant argument maps are pairwise disjoint, no
\* key is in a map twice, and together they are the set args; the child of
\* a key is the live node whose index is the magnitude of the key, and the
\* key is in the map of the kind of that node; so GetArg finds every
\* argument, and GetArgSign of an argument is +1 exactly when its positive
\* index is in args.
TypedMapPartition ==
  failed = "none" =>
    \A g \in DOMAIN gate :
      LET G == gate[g] IN
      /\ Range(G.gate_args) \cap Range(G.variable_args) = {}
      /\ Range(G.gate_args) \cap Range(G.constant_args) = {}
      /\ Range(G.variable_args) \cap Range(G.constant_args) = {}
      /\ Range(G.gate_args) \cup Range(G.variable_args)
           \cup Range(G.constant_args) = G.args
      /\ Len(G.gate_args) + Len(G.variable_args) + Len(G.constant_args)
           = Cardinality(G.args)
      /\ \A i \in G.args :
           /\ i # 0
           /\ Abs(i) \in Nodes(World)
           /\ MapHas(G.gate_args, i) <=> IsGateIndex(World, Abs(i))
           /\ MapHas(G.variable_args, i) <=> IsVariableIndex(World, Abs(i))
           /\ MapHas(G.constant_args, i) <=> IsConstantIndex(Abs(i))
           /\ GetArgSign(World, g, Abs(i)) = 1 <=> Abs(i) \in G.args
           /\ GetArgSign(World, g, Abs(i)) * Abs(i) \in G.args

\* A gate over the three kinds of node at once, one of them a complement.
TypedMapPartitionWitness ==
  /\ failed = "none"
  /\ \E g \in DOMAIN gate :
       /\ gate[g].gate_args # <<>>
       /\ gate[g].variable_args # <<>>
       /\ gate[g].constant_args # <<>>
       /\ \E i \in gate[g].args : i < 0

\* ------------------------------------------------------------ visit times
\* The times given to Node::Visit of a gate since its visit times were
\* last cleared, in the order of the calls.
TimesOf(g) ==
  LET s == SelectSeq(visit_log, LAMBDA e : e[1] = g)
  IN [k \in 1..Len(s) |-> s[k][2]]

EraseArgChangesNoOtherNode ==
  [][(last'.op = "EraseArg" /\ nops' = nops + 1) =>
       LET g == last'.g
           i == last'.index
           pre == last'.pre
       IN IF i \notin pre.args THEN failed' = "EraseArg"
          ELSE /\ failed' = "none"
               /\ gate'[g] = EraseTyped(pre, i)
               /\ DOMAIN gate' = DOMAIN gate
               /\ \A h \in DOMAIN gate \ {g} : gate'[h] = gate[h]
               /\ ~MapHas(parents'[Abs(i)], g)
               /\ \A n \in DOMAIN parents \ {Abs(i)} :
                    parents'[n] = parents[n]
               /\ null_gates' = null_gates
               /\ const_gates' = const_gates]_vars

\* C36 as amended. EraseArg(i) on a gate that holds i takes i out of args
\* and out of the one typed map that holds it, and the entry of the gate
\* out of the parents of the child; type, state, vote number and the other
\* arguments stay and no worklist grows. A child that is a gate and is left
\* without an owner is destroyed, and so are the gates it alone owned; every
\* node that lives on is unchanged but for the parent entries of the gates
\* destroyed. EraseArg of an index the gate does not hold fails its
\* assertion and changes nothing.
EraseArgFrame ==
  [][(last'.op = "EraseArg" /\ nops' = nops + 1) =>
       LET g == last'.g
           i == last'.index
           pre == last'.pre
           gone == DOMAIN gate \ DOMAIN gate'
       IN IF i \notin pre.args
          THEN /\ failed' = "EraseArg"
               /\ UNCHANGED <<gate, parents, null_gates, const_gates>>
          ELSE /\ failed' = "none"
               /\ gate'[g].args = pre.args \ {i}
               /\ Range(gate'[g].gate_args) = Range(pre.gate_args) \ {i}
               /\ Range(gate'[g].variable_args) =
                    Range(pre.variable_args) \ {i}
               /\ Range(gate'[g].constant_args) =
                    Range(pre.constant_args) \ {i}
               /\ Len(gate'[g].gate_args) + Len(gate'[g].variable_args)
                    + Len(gate'[g].constant_args) = Cardinality(pre.args) - 1
               /\ gate'[g].type = pre.type
               /\ gate'[g].state = pre.state
               /\ gate'[g].vote_number = pre.vote_number
               /\ DOMAIN gate' \subseteq DOMAIN gate
               /\ \A h \in DOMAIN gate' \ {g} : gate'[h] = gate[h]
               /\ gone # {} => Abs(i) \in gone
               /\ \A h \in gone :
                    /\ h \notin held \cup {root}
                    /\ \A p \in DOMAIN gate' : ~IsArgOf(h, gate'[p])
               /\ \A n \in DOMAIN parents' :
                    /\ Range(parents'[n]) =
                         Range(parents[n]) \ (gone \cup
                           (IF n = Abs(i) THEN {g} ELSE {}))
                    /\ Len(parents'[n]) = Cardinality(Range(parents'[n]))
               /\ null_gates' = null_gates
               /\ const_gates' = const_gates]_vars

\* The gate argument erased was owned by the gate alone: it is gone, and
\* the Variable below it has lost it as a parent.
EraseArgFrameWitness ==
  /\ failed = "none"
  /\ last.op = "EraseArg"
  /\ MapHas(last.pre.gate_args, last.index)
  /\ Abs(last.index) \notin DOMAIN gate
  /\ last.g \in DOMAIN gate
  /\ gate[last.g].args = last.pre.args \ {last.index}
  /\ gate[last.g].args # {}

ReportToFile ==
  [][(nops' = nops + 1 /\ last'.op = "ReportFile") =>
       IF Writable(last'.name)
       THEN /\ thrown' = "none"
            /\ Report(last'.risk_an, out) = out \o file'
            /\ out' = out
       ELSE /\ thrown' = "IOError"
            /\ file' = file
            /\ out' = out]_vars

\* A report with results went to a file, after which a report to a file
\* in a missing directory raised.
ReportToFileWitness ==
  /\ nops = 2
  /\ last.op = "ReportFile"
  /\ ~Writable(last.name)
  /\ thrown = "IOError"
  /\ \E k \in 1..Len(file) : file[k] = "results"
  /\ last.risk_an.results # <<>>

\* ------------------------------------------------------------------ C35
\* C35. The label of an element is set once: a new element has the empty
\* label; label(s) with the empty s raises LogicError; the first label(s)
\* with a non-empty s succeeds and s is the label; every later call raises
\* LogicError; a call that raises leaves the label as it was.
LabelSetOnce ==
  /\ label_ = ""
  /\ [][(nops' = nops + 1 /\ last'.op = "label") =>
          IF label_ = "" /\ last'.name # ""
          THEN thrown' = "none" /\ label_' = last'.name
          ELSE thrown' = "LogicError" /\ label_' = label_]_vars

\* The element was labelled "label", and the call with "new_label" raised.
LabelSetOnceWitness ==
  /\ nops = 2
  /\ last.op = "label"
  /\ last.name = "new_label"
  /\ thrown = "LogicError"
  /\ label_ = "label"

====
